---- MODULE Spec2Model ----
(***************************************************************************)
(* OneBookmark: the sync lock (lib/sync/lock.ts), the sync engine          *)
(* (lib/sync/engine.ts) and the incremental bookmark writer                *)
(* (lib/bookmark/writer.ts).                                               *)
(*                                                                         *)
(* Nine specifications share this module:                                   *)
(*   SpecLock   - execution contexts running SyncEngine.push / pull under  *)
(*                withLock, interleaved at every await on the lock slot,   *)
(*                the remote storage and the timers;                       *)
(*   SpecWriter - writeBookmarksIncremental run against a live browser     *)
(*                bookmark tree, one browser primitive per step, and the   *)
(*                pull that returns its result;                            *)
(*   SpecReorder - the same writer over folders of bookmarks with urls of  *)
(*                their own, in every order;                               *)
(*   SpecDiff   - calculateDiff (lib/bookmark/diff.ts) on pairs of trees   *)
(*                and pushBookmarks (lib/sync/operations.ts);              *)
(*   SpecSyncDiff - calculateSyncDiff (lib/sync/operations.ts) on trees    *)
(*                with and without the unnamed root;                       *)
(*   SpecLockFair - pushes under the lock with each context's acquireLock  *)
(*                steps weakly fair, for what acquireLock eventually does; *)
(*   SpecFull   - writeBookmarksFull: clear the containers, create again;  *)
(*   SpecUnresolved - the incremental writer over desired trees that also  *)
(*                hold a bookmark at root level;                           *)
(*   SpecBatch  - the options page's batch upload with diff previews       *)
(*                (entrypoints/options/hooks/useSyncOperations.ts).        *)
(* Time is in milliseconds.  A timer never fires early and may fire late.  *)
(***************************************************************************)
EXTENDS Integers, Sequences, FiniteSets, TLC

\* ------------------------------------------------------------------------
\* Program constants
\* ------------------------------------------------------------------------
LOCK_TIMEOUT_MS == 30000
timeoutMs == 10000
VERIFY_DELAY_MS == 50
BACKOFF_MS == 100

\* ------------------------------------------------------------------------
\* Bounds of the lock model
\* ------------------------------------------------------------------------
\* execution contexts (popup, options page)
Ctx == {1, 2}
\* sync invocations in all (a context runs its invocations one at a time)
MaxCalls == 2
\* iterations of the polling loop after the first per acquireLock call; a
\* call that used them up only goes on once its timeout has elapsed
MaxPolls == 1
\* forceReleaseLock calls by the user
MaxForce == 1
\* the clock stops advancing by long delays here
MaxTime == 30300
\* long delays between two steps
TickSteps == {timeoutMs, LOCK_TIMEOUT_MS}

Max(a, b) == IF a >= b THEN a ELSE b

\* ------------------------------------------------------------------------
\* State
\* ------------------------------------------------------------------------
VARIABLES
  slot,        \* browser.storage.local[SYNC_LOCK_KEY]
  now,         \* Date.now()
  pc,          \* per context: position in push()/pull()
  op,          \* per context: 'push' or 'pull'
  calls,       \* per context: invocations started
  lockId,      \* per context: lockId of the running acquireLock call
  startTime,   \* per context: startTime of the running acquireLock call
  currentLock, \* per context: the record last read from the slot
  wakeAt,      \* per context: earliest time the pending timer fires
  polls,       \* per context: loop iterations of the running call
  buf,         \* per context: localBookmarks (push) or data (pull)
  fnOutcome,   \* per context: what fn returned or threw
  outcome,     \* per context: what withLock returned or threw
  hist,        \* per context: observations of the running invocation
  forced,      \* forceReleaseLock calls so far
  released,    \* releaseLock has been called
  localTree,   \* content of the live bookmark tree (lock model)
  remoteData   \* content of the remote payload (lock model)

lockVars == <<slot, now, pc, op, calls, lockId, startTime, currentLock,
              wakeAt, polls, buf, fnOutcome, outcome, hist, forced,
              released, localTree, remoteData>>

\* ========================================================================
\* The incremental writer (lib/bookmark/writer.ts)
\* ========================================================================
\* A bookmark node (BookmarkNode, chrome.bookmarks.BookmarkTreeNode):
\* url = "" stands for no url, folder tells whether children is present.
\* A folder path such as '/Bar/G' is the sequence <<"Bar", "G">>, '' is <<>>
\* and '/' is <<"">>; titles hold no '/'.
Leaf(u, t) == [id |-> 0, title |-> t, url |-> u, folder |-> FALSE,
               children |-> <<>>]
Folder(t, ch) == [id |-> 0, title |-> t, url |-> "", folder |-> TRUE,
                  children |-> ch]

\* ------------------------------------------------------------------------
\* Bounds of the writer model
\* ------------------------------------------------------------------------
\* children of the live bookmarks bar / of the first desired top folder
MaxLiveKids == 2
MaxDesiredKids == 2
\* passes of writeBookmarksIncremental over the same desired tree
MaxRuns == 2
\* browser primitives that fail for a reason outside the writer
MaxFaults == 1
\* id of the first node created during a pass
FirstNewId == 1000

LeafAtoms == {Leaf("u1", "A"), Leaf("u1", "B"), Leaf("u2", "A")}
SubFolders == {Folder("G", <<>>), Folder("G", <<Leaf("u2", "A")>>)}
Items == LeafAtoms \cup SubFolders
KidSeqs(n) == UNION {[1..k -> Items] : k \in 0..n}
OtherKids == {<<>>, <<Leaf("u1", "A")>>}
\* top-level folder titles of a desired tree; the live tree has the
\* containers Bar and Other
TopTitles == {"Bar", "Foo"}

\* ids of a tree read from the browser: parent id * 10 + position
RECURSIVE Label(_, _)
Label(nodes, pid) ==
  [i \in 1..Len(nodes) |->
     [nodes[i] EXCEPT !.id = pid * 10 + i,
                      !.children = Label(nodes[i].children, pid * 10 + i)]]

\* browser.bookmarks.getTree(): the unnamed root with its containers
LiveTrees ==
  {<<[id |-> 0, title |-> "", url |-> "", folder |-> TRUE,
      children |-> Label(<<Folder("Bar", k1), Folder("Other", k2)>>, 0)]>> :
     k1 \in KidSeqs(MaxLiveKids), k2 \in OtherKids}

\* data.bookmarks of a remote payload
DesiredTrees ==
  {<<Folder("", <<Folder(t, k1), Folder("Other", k2)>>)>> :
     t \in TopTitles, k1 \in KidSeqs(MaxDesiredKids), k2 \in OtherKids}

\* ------------------------------------------------------------------------
\* Sequences
\* ------------------------------------------------------------------------
RECURSIVE Flat(_)
Flat(ss) == IF ss = <<>> THEN <<>> ELSE Head(ss) \o Flat(Tail(ss))

Front(s) == SubSeq(s, 1, Len(s) - 1)
Last(s) == s[Len(s)]
Range(s) == {s[i] : i \in 1..Len(s)}

\* Array.prototype.splice(i, 1) and splice(i, 0, x), i counted from 0
SpliceOut(s, i) == SubSeq(s, 1, i) \o SubSeq(s, i + 2, Len(s))
SpliceIn(s, i, x) ==
  LET k == IF i > Len(s) THEN Len(s) ELSE i
  IN SubSeq(s, 1, k) \o <<x>> \o SubSeq(s, k + 1, Len(s))

\* position of the first element with P, from 0; -1 when there is none
IndexOfId(s, id) ==
  IF \E i \in 1..Len(s) : s[i].id = id
  THEN (CHOOSE i \in 1..Len(s) :
          s[i].id = id /\ \A j \in 1..(i - 1) : s[j].id # id) - 1
  ELSE -1

\* Array.prototype.sort by an ascending numeric key (stable)
SortByKey(s, key(_)) ==
  LET rank(i) == Cardinality({j \in 1..Len(s) :
                    \/ key(s[j]) < key(s[i])
                    \/ key(s[j]) = key(s[i]) /\ j < i}) + 1
  IN [r \in 1..Len(s) |-> s[CHOOSE i \in 1..Len(s) : rank(i) = r]]

\* ------------------------------------------------------------------------
\* The browser bookmark store (browser.bookmarks.*), as the writer uses it
\* ------------------------------------------------------------------------
\* the browser the extension was built for and runs in
VARIABLE browser
Browsers == {"chromium", "firefox"}

RECURSIVE AllNodes(_)
AllNodes(nodes) ==
  Flat([i \in 1..Len(nodes) |-> <<nodes[i]>> \o AllNodes(nodes[i].children)])

NodeExists(t, id) == \E n \in Range(AllNodes(t)) : n.id = id
NodeById(t, id) == CHOOSE n \in Range(AllNodes(t)) : n.id = id
ParentIdOf(t, id) ==
  (CHOOSE n \in Range(AllNodes(t)) :
     \E i \in 1..Len(n.children) : n.children[i].id = id).id

RECURSIVE RemoveNode(_, _)
RemoveNode(nodes, id) ==
  LET kept == SelectSeq(nodes, LAMBDA n : n.id # id)
  IN [i \in 1..Len(kept) |->
        [kept[i] EXCEPT !.children = RemoveNode(@, id)]]

\* a negative index stands for no index: append
RECURSIVE InsertNode(_, _, _, _)
InsertNode(nodes, pid, node, index) ==
  [i \in 1..Len(nodes) |->
     IF nodes[i].id = pid
     THEN [nodes[i] EXCEPT
             !.children = SpliceIn(@, IF index < 0 THEN Len(@) ELSE index,
                                   node)]
     ELSE [nodes[i] EXCEPT !.children = InsertNode(@, pid, node, index)]]

RECURSIVE SetTitle(_, _, _)
SetTitle(nodes, id, title) ==
  [i \in 1..Len(nodes) |->
     IF nodes[i].id = id
     THEN [nodes[i] EXCEPT !.title = title]
     ELSE [nodes[i] EXCEPT !.children = SetTitle(@, id, title)]]

\* browser.bookmarks.remove(id): a bookmark or an empty folder
CanRemove(t, id) == NodeExists(t, id) /\ NodeById(t, id).children = <<>>
bookmarksRemove(t, id) == RemoveNode(t, id)

\* browser.bookmarks.update(id, {title})
CanUpdate(t, id) == NodeExists(t, id)
bookmarksUpdate(t, id, title) == SetTitle(t, id, title)

\* browser.bookmarks.move(id, {parentId, index}): the index is checked
\* against the destination's child count. Where the node ends up within
\* its own parent depends on the browser the extension was built for:
\* Chromium takes the index among the children as they are before the move
\* (a node moved down lands one place earlier, index = own position + 1
\* changes nothing), Firefox takes it as the node's final position.
CanMove(t, id, pid, index) ==
  /\ NodeExists(t, id) /\ NodeExists(t, pid)
  /\ NodeById(t, pid).folder
  /\ index <= Len(NodeById(t, pid).children)
IndexInParent(t, id) == IndexOfId(NodeById(t, ParentIdOf(t, id)).children, id)
bookmarksMove_finalIndex(t, id, pid, index) ==
  InsertNode(RemoveNode(t, id), pid, NodeById(t, id), index)
bookmarksMove(t, id, pid, index) ==
  IF /\ browser = "chromium"
     /\ ParentIdOf(t, id) = pid
     /\ index > IndexInParent(t, id)
  THEN bookmarksMove_finalIndex(t, id, pid, index - 1)
  ELSE bookmarksMove_finalIndex(t, id, pid, index)

\* browser.bookmarks.create({parentId, title, url, index})
CanCreate(t, pid, index) ==
  /\ NodeExists(t, pid)
  /\ NodeById(t, pid).folder
  /\ index <= Len(NodeById(t, pid).children)
bookmarksCreate(t, nid, pid, title, url, index) ==
  InsertNode(t, pid, [id |-> nid, title |-> title, url |-> url,
                      folder |-> (url = ""), children |-> <<>>], index)

\* ------------------------------------------------------------------------
\* buildBrowserIndex, getRootFolders
\* ------------------------------------------------------------------------
\* the visits of buildBrowserIndex.traverse that set byUrl / urlLocation
\* (url # "") or byPath, in order
RECURSIVE traverse(_, _)
traverse(nodes, parentPath) ==
  Flat([i \in 1..Len(nodes) |->
    LET node == nodes[i] IN
    IF node.title = "" /\ node.folder
    THEN traverse(node.children, <<>>)
    ELSE <<[id |-> node.id, url |-> node.url, title |-> node.title,
            parentPath |-> parentPath, index |-> i - 1,
            path |-> IF node.url # "" THEN <<>>
                     ELSE Append(parentPath, node.title)]>>
         \o (IF node.folder
             THEN traverse(node.children,
                           IF node.url # "" THEN parentPath
                           ELSE Append(parentPath, node.title))
             ELSE <<>>)])

\* Map.set in visiting order: the last visit of a key gives its value
LastVisit(visits, P(_)) ==
  visits[CHOOSE i \in 1..Len(visits) :
           P(visits[i]) /\ \A j \in (i + 1)..Len(visits) : ~P(visits[j])]

\* the keys of a Map in insertion order
RECURSIVE KeyOrder(_, _)
KeyOrder(keys, seen) ==
  IF keys = <<>> THEN <<>>
  ELSE IF Head(keys) \in seen THEN KeyOrder(Tail(keys), seen)
  ELSE <<Head(keys)>> \o KeyOrder(Tail(keys), seen \cup {Head(keys)})

buildByUrl(t) ==
  LET visits == SelectSeq(traverse(t, <<>>), LAMBDA v : v.url # "")
  IN [u \in {v.url : v \in Range(visits)} |->
        LastVisit(visits, LAMBDA v : v.url = u)]

\* byUrl's keys in insertion order
byUrlKeys(t) ==
  LET visits == SelectSeq(traverse(t, <<>>), LAMBDA v : v.url # "")
  IN KeyOrder([i \in 1..Len(visits) |-> visits[i].url], {})

buildByPath(t) ==
  LET visits == SelectSeq(traverse(t, <<>>), LAMBDA v : v.url = "")
  IN [p \in {v.path : v \in Range(visits)} |->
        LastVisit(visits, LAMBDA v : v.path = p).id]

getRootFolders(t) ==
  LET top == t[1].children
  IN [p \in {<<top[i].title>> : i \in 1..Len(top)} |->
        LastVisit(top, LAMBDA f : <<f.title>> = p).id]

\* ------------------------------------------------------------------------
\* computeChanges
\* ------------------------------------------------------------------------
\* the url-bearing nodes that traverseRemote meets, with the parent path
\* and the sibling index it classifies them under
\* traverseRemote passing a constant for the loop index
RECURSIVE traverseRemote_indexZero(_, _)
traverseRemote_indexZero(nodes, parentPath) ==
  Flat([i \in 1..Len(nodes) |->
    LET node == nodes[i] IN
    IF node.url # ""
    THEN <<[node |-> [title |-> node.title, url |-> node.url],
            parentPath |-> parentPath, index |-> 0]>>
    ELSE IF node.folder
    THEN traverseRemote_indexZero(node.children,
                                  Append(parentPath, node.title))
    ELSE <<>>])

RECURSIVE traverseRemote(_, _)
traverseRemote(nodes, parentPath) ==
  Flat([i \in 1..Len(nodes) |->
    LET node == nodes[i] IN
    IF node.url # ""
    THEN <<[node |-> [title |-> node.title, url |-> node.url],
            parentPath |-> parentPath, index |-> i - 1]>>
    ELSE IF node.folder
    THEN traverseRemote(node.children, Append(parentPath, node.title))
    ELSE <<>>])

RECURSIVE processBookmarkTree(_)
processBookmarkTree(bms) ==
  Flat([i \in 1..Len(bms) |->
    LET node == bms[i] IN
    IF node.title = "" /\ node.folder
    THEN processBookmarkTree(node.children)
    ELSE IF node.url = "" /\ node.folder
    THEN traverseRemote(node.children, <<node.title>>)
    ELSE IF node.url # ""
    THEN <<[node |-> [title |-> node.title, url |-> node.url],
            parentPath |-> <<>>, index |-> i - 1]>>
    ELSE <<>>])

\* an entry of toCreate / toUpdate / toMove / toReorder
Change(leaf, browserId) ==
  [node |-> leaf.node, browserId |-> browserId,
   parentPath |-> leaf.parentPath, index |-> leaf.index]

computeChanges_deleteKept(remoteBookmarks, byUrl, urlKeys) ==
  LET leaves == processBookmarkTree(remoteBookmarks)
      existing(l) == l.node.url \in DOMAIN byUrl
      change(l) == Change(l, IF existing(l) THEN byUrl[l.node.url].id ELSE 0)
      pick(P(_)) == LET sel == SelectSeq(leaves, P)
                    IN [i \in 1..Len(sel) |-> change(sel[i])]
  IN [toCreate |-> pick(LAMBDA l : ~existing(l)),
      toDelete |-> [i \in 1..Len(urlKeys) |-> byUrl[urlKeys[i]].id],
      toUpdate |-> pick(LAMBDA l :
                     existing(l) /\ byUrl[l.node.url].title # l.node.title),
      toMove |-> pick(LAMBDA l :
                   existing(l) /\ byUrl[l.node.url].parentPath # l.parentPath),
      toReorder |-> pick(LAMBDA l :
                      /\ existing(l)
                      /\ byUrl[l.node.url].parentPath = l.parentPath
                      /\ byUrl[l.node.url].index # l.index)]

computeChanges(remoteBookmarks, byUrl, urlKeys) ==
  LET leaves == processBookmarkTree(remoteBookmarks)
      remoteUrls == {l.node.url : l \in Range(leaves)}
      existing(l) == l.node.url \in DOMAIN byUrl
      change(l) == Change(l, IF existing(l) THEN byUrl[l.node.url].id ELSE 0)
      pick(P(_)) == LET sel == SelectSeq(leaves, P)
                    IN [i \in 1..Len(sel) |-> change(sel[i])]
      gone == SelectSeq(urlKeys, LAMBDA u : u \notin remoteUrls)
  IN [toCreate |-> pick(LAMBDA l : ~existing(l)),
      toDelete |-> [i \in 1..Len(gone) |-> byUrl[gone[i]].id],
      toUpdate |-> pick(LAMBDA l :
                     existing(l) /\ byUrl[l.node.url].title # l.node.title),
      toMove |-> pick(LAMBDA l :
                   existing(l) /\ byUrl[l.node.url].parentPath # l.parentPath),
      toReorder |-> pick(LAMBDA l :
                      /\ existing(l)
                      /\ byUrl[l.node.url].parentPath = l.parentPath
                      /\ byUrl[l.node.url].index # l.index)]

\* reorderByParent: the reorder entries grouped by parent path, the groups
\* in the order their first entry was met
reorderByParent(toReo) ==
  LET paths == KeyOrder([i \in 1..Len(toReo) |-> toReo[i].parentPath], {})
  IN [g \in 1..Len(paths) |->
        [parentPath |-> paths[g],
         items |-> SelectSeq(toReo, LAMBDA r : r.parentPath = paths[g])]]

\* ------------------------------------------------------------------------
\* State of the writer
\* ------------------------------------------------------------------------
VARIABLES
  tree,        \* the live bookmark tree, as getTree() returns it
  nextId,      \* id the browser gives to the next created node
  bookmarks,   \* the desired tree passed to writeBookmarksIncremental
  wpc,         \* position in writeBookmarksIncremental
  runs,        \* passes started
  byPath,      \* browserIndex.byPath: folder path -> id
  rootFolders, \* getRootFolders(): path -> id
  toDelete, toUpdate, toMove, toReorder, toCreate,
  items,       \* sortedItems of the folder being reordered, still to do
  currentChildren, \* the writer's copy of that folder's child list
  reorderParent,   \* id of that folder
  changes, errors, \* the result being built
  log,         \* browser primitives issued in this pass
  treeBefore,  \* the live tree when the pass started
  firstResult, \* the result of the first pass
  faults       \* primitives that may still fail from outside

writerVars == <<tree, nextId, bookmarks, wpc, runs, byPath, rootFolders,
                toDelete, toUpdate, toMove, toReorder, toCreate, items,
                currentChildren, reorderParent, changes, errors, log,
                treeBefore, firstResult, faults>>

\* ------------------------------------------------------------------------
\* State of the differ (lib/bookmark/diff.ts) and of the push / pull
\* operations built on it (lib/sync/operations.ts)
\* ------------------------------------------------------------------------
VARIABLES
  source,      \* calculateDiff's source: the side that is overwritten
  target,      \* calculateDiff's target: the side that survives
  dpc,         \* which calls have returned
  diff,        \* calculateDiff(source, target)
  diffBack,    \* calculateDiff(target, source)
  payload,     \* bookmarks of the remote payload after pushBookmarks
  pushResult,  \* what pushBookmarks returned
  pullResult   \* what SyncEngine.pull returned for the writer's pass

diffVars == <<source, target, dpc, diff, diffBack, payload, pushResult>>

\* the options object a caller passes to calculateDiff as third argument
VARIABLE options
NoOptions == [skipRootPath |-> FALSE]

\* an empty DiffResult
NoDiff == [added |-> <<>>, removed |-> <<>>, modified |-> <<>>,
           hasChanges |-> FALSE]

\* ------------------------------------------------------------------------
\* State of the options page's batch upload (useSyncOperations)
\* ------------------------------------------------------------------------
VARIABLES
  backups,      \* uploadEnabledBackups
  diffState,    \* the hook's DiffPreviewState
  bpc,          \* where the batch upload stands
  call,         \* arguments of the pending processNextPushBackup call
  handled,      \* names of the backups taken as current, in order
  pushCalls,    \* names of the backups passed to pushBookmarks, in order
  finalResults  \* the results finishBatchPush was called with

batchVars == <<backups, diffState, bpc, call, handled, pushCalls,
               finalResults>>

vars == <<lockVars, writerVars, diffVars, pullResult, browser, options,
          batchVars>>

\* PushResults without an entry
NoResults == [items |-> <<>>, fail |-> 0]
NoBackup == [name |-> 0, gistId |-> FALSE, read |-> "null",
             bookmarks |-> <<>>]

\* INITIAL_DIFF_STATE
INITIAL_DIFF_STATE ==
  [showModal |-> FALSE, result |-> NoDiff, action |-> "null",
   pendingPushBackups |-> <<>>, currentPushBackup |-> NoBackup,
   pushResults |-> NoResults]

\* the hook as mounted, no batch upload begun
BatchAtRest ==
  /\ backups = <<>> /\ diffState = INITIAL_DIFF_STATE /\ bpc = "idle"
  /\ call = [queue |-> <<>>, results |-> NoResults]
  /\ handled = <<>> /\ pushCalls = <<>> /\ finalResults = NoResults

\* no call of calculateDiff or pushBookmarks yet, over empty trees
DiffAtRest ==
  /\ source = <<>> /\ target = <<>> /\ dpc = "idle"
  /\ diff = NoDiff /\ diffBack = NoDiff
  /\ payload = <<>> /\ pushResult = "none" /\ options = NoOptions

\* pull has not returned for any pass
NoPull == [run |-> 0, success |-> FALSE, changes |-> 0]

\* the slot is empty
NoLock == [holder |-> <<0, 0>>, acquiredAt |-> 0, operation |-> "none"]
NoToken == <<0, 0>>

\* generateLockId: unique per acquisition
generateLockId(c, n) == <<c, n>>

isLockExpired_never(lock) == FALSE

isLockExpired(lock) == now - lock.acquiredAt > LOCK_TIMEOUT_MS

\* acquireLock's confirmation: verifyLock?.holder === lockId
verifyLockHolds_negated(verifyLock, id) == verifyLock.holder # id

verifyLockHolds(verifyLock, id) == verifyLock.holder = id

isLocked == slot # NoLock /\ ~isLockExpired(slot)

\* outcomes of fn and of withLock
NoOutcome == [kind |-> "none", val |-> "none"]
Value(v) == [kind |-> "value", val |-> v]
Thrown(e) == [kind |-> "error", val |-> e]
LockError == Thrown("lockUnavailable")

\* SyncEngine.push / pull: the try/catch around withLock
SyncResult(o) ==
  IF o.kind = "value"
  THEN [success |-> TRUE, errorType |-> "none"]
  ELSE [success |-> FALSE,
        errorType |-> IF o.val = "lockUnavailable" THEN "none" ELSE o.val]

NoHist == [got |-> NoToken, fnRan |-> FALSE, relWith |-> NoToken,
           relResult |-> "none", staleRead |-> FALSE, wrote |-> FALSE,
           rRead |-> FALSE, rWrite |-> FALSE, prims |-> FALSE,
           slotAtEnd |-> NoLock, forcedInFn |-> FALSE]

\* positions inside the body passed to withLock
FnPcs == {"push_read", "push_write", "pull_read", "pull_write"}

\* the context is executing the body passed to withLock
InFn(c) == pc[c] \in FnPcs

\* the age of the record exceeds the staleness threshold
AgeExceeds(lock, t) == lock # NoLock /\ t - lock.acquiredAt > LOCK_TIMEOUT_MS

\* WriteResult
NoResult == [success |-> TRUE, changes |-> 0, errors |-> <<>>]

\* the writer at rest, over an empty bookmark store
WriterAtRest ==
  /\ wpc = "idle" /\ runs = 0 /\ nextId = FirstNewId
  /\ byPath = <<>> /\ rootFolders = <<>>
  /\ toDelete = <<>> /\ toUpdate = <<>> /\ toMove = <<>>
  /\ toReorder = <<>> /\ toCreate = <<>> /\ items = <<>>
  /\ currentChildren = <<>> /\ reorderParent = 0
  /\ changes = 0 /\ errors = <<>> /\ log = <<>>
  /\ treeBefore = <<>> /\ firstResult = NoResult

\* no context has synced yet
LockAtRest ==
  /\ slot = NoLock /\ now = 0 /\ forced = 0 /\ released = FALSE
  /\ pc = [c \in Ctx |-> "idle"]
  /\ op = [c \in Ctx |-> "push"]
  /\ calls = [c \in Ctx |-> 0]
  /\ lockId = [c \in Ctx |-> NoToken]
  /\ startTime = [c \in Ctx |-> 0]
  /\ currentLock = [c \in Ctx |-> NoLock]
  /\ wakeAt = [c \in Ctx |-> 0]
  /\ polls = [c \in Ctx |-> 0]
  /\ buf = [c \in Ctx |-> "none"]
  /\ fnOutcome = [c \in Ctx |-> NoOutcome]
  /\ outcome = [c \in Ctx |-> NoOutcome]
  /\ hist = [c \in Ctx |-> NoHist]
  /\ localTree = "L"

InitLock ==
  /\ WriterAtRest /\ tree = <<>> /\ bookmarks = <<>> /\ faults = 0
  /\ DiffAtRest /\ pullResult = NoPull /\ browser = "chromium"
  /\ LockAtRest /\ BatchAtRest
  /\ remoteData \in {"none", "R"}

\* ------------------------------------------------------------------------
\* SyncEngine.push / pull -> withLock -> acquireLock
\* ------------------------------------------------------------------------
\* push() or pull() is invoked: withLock calls acquireLock, which draws its
\* lockId and startTime
TotalCalls == calls[1] + calls[2]

\* context 1 names the context that syncs first
SyncStart(c, o) ==
  /\ pc[c] = "idle"
  /\ TotalCalls < MaxCalls
  /\ c = 1 \/ calls[1] > 0
  /\ calls' = [calls EXCEPT ![c] = @ + 1]
  /\ op' = [op EXCEPT ![c] = o]
  /\ lockId' = [lockId EXCEPT ![c] = generateLockId(c, calls[c] + 1)]
  /\ startTime' = [startTime EXCEPT ![c] = now]
  /\ wakeAt' = [wakeAt EXCEPT ![c] = now]
  /\ polls' = [polls EXCEPT ![c] = 0]
  /\ currentLock' = [currentLock EXCEPT ![c] = NoLock]
  /\ buf' = [buf EXCEPT ![c] = "none"]
  /\ fnOutcome' = [fnOutcome EXCEPT ![c] = NoOutcome]
  /\ outcome' = [outcome EXCEPT ![c] = NoOutcome]
  /\ hist' = [hist EXCEPT ![c] = NoHist]
  /\ pc' = [pc EXCEPT ![c] = "read"]
  /\ UNCHANGED <<slot, now, forced, released, localTree, remoteData>>
  /\ UNCHANGED <<writerVars, diffVars, pullResult, browser, options, batchVars>>

\* a loop that never gives up
loopCondition_always(c, t) == TRUE

\* while (Date.now() - startTime < timeoutMs), Date.now() being t
loopCondition(c, t) == t - startTime[c] < timeoutMs

\* the first iteration: startTime was drawn in the same turn, so the loop
\* condition holds; currentLock = getLockInfo()
AcqRead(c) ==
  /\ pc[c] = "read"
  /\ currentLock' = [currentLock EXCEPT ![c] = slot]
  /\ pc' = [pc EXCEPT ![c] = "decide"]
  /\ UNCHANGED <<slot, now, op, calls, lockId, startTime, wakeAt, polls, buf,
                 fnOutcome, outcome, hist, forced, released, localTree,
                 remoteData>>
  /\ UNCHANGED <<writerVars, diffVars, pullResult, browser, options, batchVars>>

\* the backoff timer fires: while (Date.now() - startTime < timeoutMs)
\* holds, currentLock = getLockInfo()
AcqPoll(c) ==
  /\ pc[c] = "poll"
  /\ polls[c] < MaxPolls
  /\ now' = Max(now, wakeAt[c])
  /\ loopCondition(c, now')
  /\ currentLock' = [currentLock EXCEPT ![c] = slot]
  /\ polls' = [polls EXCEPT ![c] = @ + 1]
  /\ pc' = [pc EXCEPT ![c] = "decide"]
  /\ UNCHANGED <<slot, op, calls, lockId, startTime, wakeAt, buf, fnOutcome,
                 outcome, hist, forced, released, localTree, remoteData>>
  /\ UNCHANGED <<writerVars, diffVars, pullResult, browser, options, batchVars>>

\* the backoff timer fires and the loop condition fails: acquireLock returns null, withLock throws,
\* push()/pull() catches and returns the failure
AcqTimeout(c) ==
  /\ pc[c] = "poll"
  /\ now' = Max(now, wakeAt[c])
  /\ ~loopCondition(c, now')
  /\ outcome' = [outcome EXCEPT ![c] = LockError]
  /\ hist' = [hist EXCEPT ![c].slotAtEnd = slot]
  /\ pc' = [pc EXCEPT ![c] = "done"]
  /\ startTime' = [startTime EXCEPT ![c] = 0]
  /\ wakeAt' = [wakeAt EXCEPT ![c] = 0]
  /\ polls' = [polls EXCEPT ![c] = 0]
  /\ UNCHANGED <<slot, op, calls, lockId, currentLock, buf, fnOutcome,
                 forced, released, localTree, remoteData>>
  /\ UNCHANGED <<writerVars, diffVars, pullResult, browser, options, batchVars>>

\* withLock running pull's body whatever the operation
fn_pullBody(o) == "pull_read"

\* withLock(operation, fn): where the body that push / pull passes begins
fn(o) == IF o = "push" THEN "push_read" ELSE "pull_read"

\* a test that passes over an empty slot
mayWrite_onlyExpired(lock) == lock # NoLock /\ isLockExpired(lock)

\* !currentLock || isLockExpired(currentLock)
mayWrite(lock) == lock = NoLock \/ isLockExpired(lock)

\* if (!currentLock || isLockExpired(currentLock)) storage.set(newLock)
\* and start the verification timer; else start the backoff timer
AcqDecide(c) ==
  /\ pc[c] = "decide"
  /\ IF mayWrite(currentLock[c])
     THEN /\ slot' = [holder |-> lockId[c], acquiredAt |-> now,
                      operation |-> op[c]]
          /\ wakeAt' = [wakeAt EXCEPT ![c] = now + VERIFY_DELAY_MS]
          /\ hist' = [hist EXCEPT
                        ![c].wrote = TRUE,
                        ![c].staleRead = @ \/ AgeExceeds(currentLock[c], now)]
          /\ pc' = [pc EXCEPT ![c] = "verify"]
     ELSE /\ wakeAt' = [wakeAt EXCEPT ![c] = now + BACKOFF_MS]
          /\ pc' = [pc EXCEPT ![c] = "poll"]
          /\ hist' = [hist EXCEPT
                        ![c].staleRead = @ \/ AgeExceeds(currentLock[c], now)]
          /\ UNCHANGED slot
  /\ currentLock' = [currentLock EXCEPT ![c] = NoLock]
  /\ UNCHANGED <<now, op, calls, lockId, startTime, polls, buf, fnOutcome,
                 outcome, forced, released, localTree, remoteData>>
  /\ UNCHANGED <<writerVars, diffVars, pullResult, browser, options, batchVars>>

\* after the verification delay: verifyLock = getLockInfo();
\* verifyLock?.holder === lockId returns lockId, and withLock calls fn
AcqVerify(c) ==
  /\ pc[c] = "verify"
  /\ now' = Max(now, wakeAt[c])
  /\ IF verifyLockHolds(slot, lockId[c])
     THEN /\ pc' = [pc EXCEPT ![c] = fn(op[c])]
          /\ hist' = [hist EXCEPT ![c].got = lockId[c]]
          /\ startTime' = [startTime EXCEPT ![c] = 0]
          /\ wakeAt' = [wakeAt EXCEPT ![c] = 0]
          /\ polls' = [polls EXCEPT ![c] = 0]
     ELSE /\ pc' = [pc EXCEPT ![c] = "poll"]
          /\ wakeAt' = [wakeAt EXCEPT ![c] = now' + BACKOFF_MS]
          /\ UNCHANGED <<hist, startTime, polls>>
  /\ UNCHANGED <<slot, op, calls, lockId, currentLock, buf, fnOutcome,
                 outcome, forced, released, localTree, remoteData>>
  /\ UNCHANGED <<writerVars, diffVars, pullResult, browser, options, batchVars>>

\* withLock: try { return await fn() } finally { await releaseLock(lockId) };
\* where control goes once fn has settled with o
withLockFinally_skipOnThrow(o) ==
  IF o.kind = "error" THEN "done" ELSE "release"

withLockFinally(o) == "release"

\* ------------------------------------------------------------------------
\* fn of push: getBookmarksByFolder, createSyncData, storage.write
\* ------------------------------------------------------------------------
PushReadLocal(c) ==
  /\ pc[c] = "push_read"
  /\ buf' = [buf EXCEPT ![c] = localTree]
  /\ hist' = [hist EXCEPT ![c].fnRan = TRUE]
  /\ pc' = [pc EXCEPT ![c] = "push_write"]
  /\ UNCHANGED <<slot, now, op, calls, lockId, startTime, currentLock,
                 wakeAt, polls, fnOutcome, outcome, forced, released, localTree,
                 remoteData>>
  /\ UNCHANGED <<writerVars, diffVars, pullResult, browser, options, batchVars>>

\* storage.write(syncData) succeeds, or throws a SyncError
PushWrite(c) ==
  /\ pc[c] = "push_write"
  /\ \/ /\ remoteData' = buf[c]
        /\ fnOutcome' = [fnOutcome EXCEPT ![c] = Value("pushed")]
     \/ /\ fnOutcome' = [fnOutcome EXCEPT ![c] = Thrown("network")]
        /\ UNCHANGED remoteData
  /\ hist' = [hist EXCEPT ![c].rWrite = TRUE]
  /\ pc' = [pc EXCEPT ![c] = withLockFinally(fnOutcome'[c])]
  /\ UNCHANGED <<slot, now, op, calls, lockId, startTime, currentLock,
                 wakeAt, polls, buf, outcome, forced, released, localTree>>
  /\ UNCHANGED <<writerVars, diffVars, pullResult, browser, options, batchVars>>

\* ------------------------------------------------------------------------
\* fn of pull: storage.read, writeBookmarksToFolder
\* ------------------------------------------------------------------------
\* storage.read() returns the payload, returns null (fn throws noData), or
\* throws a SyncError
PullRead(c) ==
  /\ pc[c] = "pull_read"
  /\ hist' = [hist EXCEPT ![c].rRead = TRUE, ![c].fnRan = TRUE]
  /\ \/ /\ remoteData # "none"
        /\ buf' = [buf EXCEPT ![c] = remoteData]
        /\ pc' = [pc EXCEPT ![c] = "pull_write"]
        /\ UNCHANGED fnOutcome
     \/ /\ remoteData = "none"
        /\ fnOutcome' = [fnOutcome EXCEPT ![c] = Thrown("noData")]
        /\ pc' = [pc EXCEPT ![c] = withLockFinally(fnOutcome'[c])]
        /\ UNCHANGED buf
     \/ /\ fnOutcome' = [fnOutcome EXCEPT ![c] = Thrown("network")]
        /\ pc' = [pc EXCEPT ![c] = withLockFinally(fnOutcome'[c])]
        /\ UNCHANGED buf
  /\ UNCHANGED <<slot, now, op, calls, lockId, startTime, currentLock,
                 wakeAt, polls, outcome, forced, released, localTree, remoteData>>
  /\ UNCHANGED <<writerVars, diffVars, pullResult, browser, options, batchVars>>

\* the live tree is reconciled to data.bookmarks
PullWrite(c) ==
  /\ pc[c] = "pull_write"
  /\ localTree' = buf[c]
  /\ hist' = [hist EXCEPT ![c].prims = TRUE]
  /\ fnOutcome' = [fnOutcome EXCEPT ![c] = Value("pulled")]
  /\ pc' = [pc EXCEPT ![c] = withLockFinally(fnOutcome'[c])]
  /\ UNCHANGED <<slot, now, op, calls, lockId, startTime, currentLock,
                 wakeAt, polls, buf, outcome, forced, released, remoteData>>
  /\ UNCHANGED <<writerVars, diffVars, pullResult, browser, options, batchVars>>

\* ------------------------------------------------------------------------
\* withLock's finally: releaseLock(lockId)
\* ------------------------------------------------------------------------
\* releaseLock that does not compare the holder with its token
ReleaseRead_anyHolder(c) ==
  /\ pc[c] = "release"
  /\ released' = TRUE
  /\ pc' = [pc EXCEPT ![c] = "remove"]
  /\ hist' = [hist EXCEPT ![c].relWith = lockId[c]]
  /\ UNCHANGED <<slot, now, op, calls, lockId, startTime, currentLock,
                 wakeAt, polls, buf, fnOutcome, outcome, forced, localTree,
                 remoteData>>
  /\ UNCHANGED <<writerVars, diffVars, pullResult, browser, options, batchVars>>

\* currentLock = getLockInfo(); a holder that differs returns false
ReleaseRead(c) ==
  /\ pc[c] = "release"
  /\ released' = TRUE
  /\ IF slot.holder = lockId[c]
     THEN /\ pc' = [pc EXCEPT ![c] = "remove"]
          /\ hist' = [hist EXCEPT ![c].relWith = lockId[c]]
          /\ UNCHANGED outcome
     ELSE /\ pc' = [pc EXCEPT ![c] = "done"]
          /\ hist' = [hist EXCEPT ![c].relWith = lockId[c],
                                  ![c].relResult = "false",
                                  ![c].slotAtEnd = slot]
          /\ outcome' = [outcome EXCEPT ![c] = fnOutcome[c]]
  /\ UNCHANGED <<slot, now, op, calls, lockId, startTime, currentLock,
                 wakeAt, polls, buf, fnOutcome, forced, localTree,
                 remoteData>>
  /\ UNCHANGED <<writerVars, diffVars, pullResult, browser, options, batchVars>>

\* storage.remove(SYNC_LOCK_KEY); return true
ReleaseRemove(c) ==
  /\ pc[c] = "remove"
  /\ slot' = NoLock
  /\ hist' = [hist EXCEPT ![c].relResult = "true", ![c].slotAtEnd = NoLock]
  /\ outcome' = [outcome EXCEPT ![c] = fnOutcome[c]]
  /\ pc' = [pc EXCEPT ![c] = "done"]
  /\ UNCHANGED <<now, op, calls, lockId, startTime, currentLock, wakeAt,
                 polls, buf, fnOutcome, forced, released, localTree, remoteData>>
  /\ UNCHANGED <<writerVars, diffVars, pullResult, browser, options, batchVars>>

\* the caller of push()/pull() has its result and may sync again
SyncReturn(c) ==
  /\ pc[c] = "done"
  /\ TotalCalls < MaxCalls
  /\ pc' = [pc EXCEPT ![c] = "idle"]
  /\ op' = [op EXCEPT ![c] = "push"]
  /\ lockId' = [lockId EXCEPT ![c] = NoToken]
  /\ buf' = [buf EXCEPT ![c] = "none"]
  /\ fnOutcome' = [fnOutcome EXCEPT ![c] = NoOutcome]
  /\ outcome' = [outcome EXCEPT ![c] = NoOutcome]
  /\ hist' = [hist EXCEPT ![c] = NoHist]
  /\ UNCHANGED <<slot, now, calls, startTime, currentLock, wakeAt, polls,
                 forced, released, localTree, remoteData>>
  /\ UNCHANGED <<writerVars, diffVars, pullResult, browser, options, batchVars>>

\* forceReleaseLock, from the UI
ForceRelease ==
  /\ forced < MaxForce
  /\ slot' = NoLock
  /\ forced' = forced + 1
  /\ hist' = [c \in Ctx |->
               IF InFn(c) THEN [hist[c] EXCEPT !.forcedInFn = TRUE]
               ELSE hist[c]]
  /\ UNCHANGED <<released, now, pc, op, calls, lockId, startTime, currentLock, wakeAt,
                 polls, buf, fnOutcome, outcome, localTree, remoteData>>
  /\ UNCHANGED <<writerVars, diffVars, pullResult, browser, options, batchVars>>

\* a long delay: a backoff timer fires late (timeoutMs), or the verification
\* timer or an operation of fn takes long (LOCK_TIMEOUT_MS)
Tick(d) ==
  /\ \E c \in Ctx :
       IF d = timeoutMs
       THEN pc[c] = "poll"
       ELSE pc[c] \in {"verify", "push_read", "push_write", "pull_read",
                       "pull_write"}
  /\ now + d <= MaxTime
  /\ now' = now + d
  /\ UNCHANGED <<slot, pc, op, calls, lockId, startTime, currentLock, wakeAt,
                 polls, buf, fnOutcome, outcome, hist, forced, released, localTree,
                 remoteData>>
  /\ UNCHANGED <<writerVars, diffVars, pullResult, browser, options, batchVars>>

NextLock ==
  \/ \E c \in Ctx, o \in {"push", "pull"} : SyncStart(c, o)
  \/ \E c \in Ctx : AcqRead(c)
  \/ \E c \in Ctx : AcqPoll(c)
  \/ \E c \in Ctx : AcqTimeout(c)
  \/ \E c \in Ctx : AcqDecide(c)
  \/ \E c \in Ctx : AcqVerify(c)
  \/ \E c \in Ctx : PushReadLocal(c)
  \/ \E c \in Ctx : PushWrite(c)
  \/ \E c \in Ctx : PullRead(c)
  \/ \E c \in Ctx : PullWrite(c)
  \/ \E c \in Ctx : ReleaseRead(c)
  \/ \E c \in Ctx : ReleaseRemove(c)
  \/ \E c \in Ctx : SyncReturn(c)
  \/ ForceRelease
  \/ \E d \in TickSteps : Tick(d)

SpecLock == InitLock /\ [][NextLock]_vars

\* ------------------------------------------------------------------------
\* ensureParentFolder
\* ------------------------------------------------------------------------
\* the id found or created (0 for null), with the tree, the index and the
\* id counter as the call leaves them and the paths it created
\* ensureParentFolder leaving the created folder out of the index
indexFolder_skipped(bp, parentPath, id) == bp

\* browserIndex.byPath.set(parentPath, newFolder)
indexFolder(bp, parentPath, id) == (parentPath :> id) @@ bp

RECURSIVE ensureParentFolder(_, _, _, _, _)
ensureParentFolder(parentPath, t, bp, rf, nid) ==
  LET same(id) == [id |-> id, tree |-> t, byPath |-> bp, nextId |-> nid,
                   created |-> <<>>]
  IN IF parentPath = <<>> \/ parentPath = <<"">> THEN same(0)
     ELSE IF parentPath \in DOMAIN rf THEN same(rf[parentPath])
     ELSE IF parentPath \in DOMAIN bp THEN same(bp[parentPath])
     ELSE LET parentOfParent == IF Front(parentPath) = <<>> THEN <<"">>
                                ELSE Front(parentPath)
              folderTitle == Last(parentPath)
              r == ensureParentFolder(parentOfParent, t, bp, rf, nid)
          IN IF r.id = 0 THEN r
             ELSE [id |-> r.nextId,
                   tree |-> bookmarksCreate(r.tree, r.nextId, r.id,
                                            folderTitle, "", -1),
                   byPath |-> indexFolder(r.byPath, parentPath, r.nextId),
                   nextId |-> r.nextId + 1,
                   created |-> Append(r.created, parentPath)]

\* ------------------------------------------------------------------------
\* writeBookmarksIncremental
\* ------------------------------------------------------------------------
\* a parent id that is always taken as found
hasParentId_always(r) == TRUE

\* if (newParentId) / if (parentId): ensureParentFolder did not return null
hasParentId(r) == r.id # 0

\* a browser primitive the pass issued
Prim(o, id, url, ok) ==
  [op |-> o, id |-> id, url |-> url, ok |-> ok, path |-> <<>>]

\* browser.bookmarks.create({parentId, title}) for the folder path p
Mkdir(id, p, ok) == [Prim("mkdir", id, "", ok) EXCEPT !.path = p]

\* folder creations of an ensureParentFolder call
Mkdirs(r, nid) ==
  [i \in 1..Len(r.created) |-> Mkdir(nid + i - 1, r.created[i], TRUE)]

\* parentPath.substring(0, lastSlash) || '/'
ParentOfParent(parentPath) ==
  IF Front(parentPath) = <<>> THEN <<"">> ELSE Front(parentPath)

\* an ensureParentFolder call that has a folder to create may throw from
\* that create, while faults remain
MayThrow(r) == r.created # <<>> /\ faults > 0

\* a primitive that would succeed may still fail from outside, while
\* faults remain; one that cannot succeed fails
Fails(fail, ok) == IF ok THEN fail /\ faults > 0 ELSE TRUE

InitWriter ==
  /\ LockAtRest /\ remoteData = "none" /\ BatchAtRest
  /\ DiffAtRest /\ pullResult = NoPull /\ browser \in Browsers
  /\ WriterAtRest
  /\ tree \in LiveTrees
  /\ bookmarks \in DesiredTrees
  /\ faults = MaxFaults

\* entry: buildBrowserIndex, getRootFolders, computeChanges
WStart ==
  /\ wpc \in {"idle", "done"}
  /\ runs < MaxRuns
  /\ LET cc == computeChanges(bookmarks, buildByUrl(tree), byUrlKeys(tree))
     IN /\ toCreate' = cc.toCreate
        /\ toDelete' = cc.toDelete
        /\ toUpdate' = cc.toUpdate
        /\ toMove' = cc.toMove
        /\ toReorder' = reorderByParent(cc.toReorder)
  /\ byPath' = buildByPath(tree)
  /\ rootFolders' = getRootFolders(tree)
  /\ items' = <<>> /\ currentChildren' = <<>> /\ reorderParent' = 0
  /\ changes' = 0 /\ errors' = <<>> /\ log' = <<>>
  /\ treeBefore' = tree
  /\ runs' = runs + 1
  /\ wpc' = "computed"
  /\ UNCHANGED <<tree, nextId, bookmarks, firstResult, faults>>
  /\ UNCHANGED <<lockVars, diffVars, pullResult, browser, options, batchVars>>

\* console.log('[Writer] ...', {create, delete, update, move, reorder}):
\* the queues are as computeChanges returned them, the phases begin
WLogChanges ==
  /\ wpc = "computed"
  /\ wpc' = "run"
  /\ UNCHANGED <<tree, nextId, bookmarks, runs, byPath, rootFolders,
                 toDelete, toUpdate, toMove, toReorder, toCreate, items,
                 currentChildren, reorderParent, changes, errors, log,
                 treeBefore, firstResult, faults>>
  /\ UNCHANGED <<lockVars, diffVars, pullResult, browser, options, batchVars>>

\* 1. for (const id of toDelete) browser.bookmarks.remove(id)
WDelete ==
  /\ wpc = "run" /\ toDelete # <<>>
  /\ LET id == Head(toDelete)
         ok == CanRemove(tree, id)
         url == IF NodeExists(tree, id) THEN NodeById(tree, id).url ELSE ""
     IN \E fail \in BOOLEAN :
          /\ fail = Fails(fail, ok)
          /\ IF fail
             THEN /\ errors' = Append(errors, "delete")
                  /\ faults' = IF ok THEN faults - 1 ELSE faults
                  /\ UNCHANGED <<tree, changes>>
             ELSE /\ tree' = bookmarksRemove(tree, id)
                  /\ changes' = changes + 1
                  /\ UNCHANGED <<errors, faults>>
          /\ log' = Append(log, Prim("remove", id, url, ~fail))
  /\ toDelete' = Tail(toDelete)
  /\ UNCHANGED <<nextId, bookmarks, wpc, runs, byPath, rootFolders, toUpdate,
                 toMove, toReorder, toCreate, items, currentChildren,
                 reorderParent, treeBefore, firstResult>>
  /\ UNCHANGED <<lockVars, diffVars, pullResult, browser, options, batchVars>>

\* the update loop starting before the delete loop has ended
deletesDone_ignored == TRUE

\* the delete loop has run through toDelete
deletesDone == toDelete = <<>>

\* 2. for (... of toUpdate) browser.bookmarks.update(browserId, {title})
WUpdate ==
  /\ wpc = "run" /\ deletesDone /\ toUpdate # <<>>
  /\ LET it == Head(toUpdate)
         ok == CanUpdate(tree, it.browserId)
     IN \E fail \in BOOLEAN :
          /\ fail = Fails(fail, ok)
          /\ IF fail
             THEN /\ errors' = Append(errors, "update")
                  /\ faults' = IF ok THEN faults - 1 ELSE faults
                  /\ UNCHANGED <<tree, changes>>
             ELSE /\ tree' = bookmarksUpdate(tree, it.browserId,
                                             it.node.title)
                  /\ changes' = changes + 1
                  /\ UNCHANGED <<errors, faults>>
          /\ log' = Append(log, Prim("update", it.browserId, it.node.url,
                                     ~fail))
  /\ toUpdate' = Tail(toUpdate)
  /\ UNCHANGED <<nextId, bookmarks, wpc, runs, byPath, rootFolders, toDelete,
                 toMove, toReorder, toCreate, items, currentChildren,
                 reorderParent, treeBefore, firstResult>>
  /\ UNCHANGED <<lockVars, diffVars, pullResult, browser, options, batchVars>>

\* 3. for (... of toMove) ensureParentFolder, browser.bookmarks.move
WMove ==
  /\ wpc = "run" /\ toDelete = <<>> /\ toUpdate = <<>> /\ toMove # <<>>
  /\ LET it == Head(toMove)
         r == ensureParentFolder(it.parentPath, tree, byPath, rootFolders,
                                 nextId)
         ok == CanMove(r.tree, it.browserId, r.id, it.index)
         rp == ensureParentFolder(ParentOfParent(it.parentPath), tree,
                                  byPath, rootFolders, nextId)
     IN \E thrown \in BOOLEAN :
        /\ thrown => MayThrow(r)
        /\ byPath' = IF thrown THEN rp.byPath ELSE r.byPath
        /\ nextId' = IF thrown THEN rp.nextId ELSE r.nextId
        /\ IF thrown
           THEN /\ tree' = rp.tree
                /\ log' = Append(log \o Mkdirs(rp, nextId),
                                 Mkdir(0, it.parentPath, FALSE))
                /\ errors' = Append(errors, "move")
                /\ faults' = faults - 1
                /\ UNCHANGED changes
           ELSE IF ~hasParentId(r)
           THEN /\ tree' = r.tree
                /\ log' = log \o Mkdirs(r, nextId)
                /\ UNCHANGED <<changes, errors, faults>>
           ELSE \E fail \in BOOLEAN :
                  /\ fail = Fails(fail, ok)
                  /\ IF fail
                     THEN /\ errors' = Append(errors, "move")
                          /\ faults' = IF ok THEN faults - 1 ELSE faults
                          /\ tree' = r.tree
                          /\ UNCHANGED changes
                     ELSE /\ tree' = bookmarksMove(r.tree, it.browserId,
                                                   r.id, it.index)
                          /\ changes' = changes + 1
                          /\ UNCHANGED <<errors, faults>>
                  /\ log' = Append(log \o Mkdirs(r, nextId),
                                   Prim("move", it.browserId, it.node.url,
                                        ~fail))
  /\ toMove' = Tail(toMove)
  /\ UNCHANGED <<bookmarks, wpc, runs, rootFolders, toDelete, toUpdate,
                 toReorder, toCreate, items, currentChildren, reorderParent,
                 treeBefore, firstResult>>
  /\ UNCHANGED <<lockVars, diffVars, pullResult, browser, options, batchVars>>

\* 4. for (const [parentPath, items] of reorderByParent):
\* ensureParentFolder, getSubTree, sortedItems
WReorderBegin ==
  /\ wpc = "run" /\ toDelete = <<>> /\ toUpdate = <<>> /\ toMove = <<>>
  /\ items = <<>> /\ toReorder # <<>>
  /\ LET group == Head(toReorder)
         r == ensureParentFolder(group.parentPath, tree, byPath, rootFolders,
                                 nextId)
     IN /\ byPath' = r.byPath
        /\ nextId' = r.nextId
        /\ tree' = r.tree
        /\ log' = log \o Mkdirs(r, nextId)
        /\ IF r.id = 0 \/ ~NodeExists(r.tree, r.id)
           THEN UNCHANGED <<items, currentChildren, reorderParent>>
           ELSE /\ items' = SortByKey(group.items, LAMBDA x : x.index)
                /\ currentChildren' = NodeById(r.tree, r.id).children
                /\ reorderParent' = r.id
  /\ toReorder' = Tail(toReorder)
  /\ UNCHANGED <<bookmarks, wpc, runs, rootFolders, toDelete, toUpdate,
                 toMove, toCreate, changes, errors, treeBefore, firstResult,
                 faults>>
  /\ UNCHANGED <<lockVars, diffVars, pullResult, browser, options, batchVars>>

\* for (... of sortedItems): browser.bookmarks.move(browserId, {index}) and
\* the same move in currentChildren; a throw ends the folder's batch
WReorderItem ==
  /\ wpc = "run" /\ items # <<>>
  /\ LET it == Head(items)
         currentIndex == IndexOfId(currentChildren, it.browserId)
         ok == /\ NodeExists(tree, it.browserId)
               /\ CanMove(tree, it.browserId, ParentIdOf(tree, it.browserId),
                          it.index)
     IN IF currentIndex = -1 \/ currentIndex = it.index
        THEN /\ items' = Tail(items)
             /\ UNCHANGED <<tree, currentChildren, changes, errors, log,
                            faults>>
        ELSE \E fail \in BOOLEAN :
               /\ fail = Fails(fail, ok)
               /\ IF fail
                  THEN /\ errors' = Append(errors, "reorder")
                       /\ faults' = IF ok THEN faults - 1 ELSE faults
                       /\ items' = <<>>
                       /\ UNCHANGED <<tree, currentChildren, changes>>
                  ELSE /\ tree' = bookmarksMove(tree, it.browserId,
                                     ParentIdOf(tree, it.browserId), it.index)
                       /\ currentChildren' =
                            SpliceIn(SpliceOut(currentChildren, currentIndex),
                                     it.index, currentChildren[currentIndex + 1])
                       /\ changes' = changes + 1
                       /\ items' = Tail(items)
                       /\ UNCHANGED <<errors, faults>>
               /\ log' = Append(log, Prim("reorder", it.browserId,
                                          it.node.url, ~fail))
  /\ UNCHANGED <<nextId, bookmarks, wpc, runs, byPath, rootFolders, toDelete,
                 toUpdate, toMove, toReorder, toCreate, reorderParent,
                 treeBefore, firstResult>>
  /\ UNCHANGED <<lockVars, diffVars, pullResult, browser, options, batchVars>>

\* 5. for (... of sortedCreate) ensureParentFolder, browser.bookmarks.create
WCreate ==
  /\ wpc = "run" /\ toDelete = <<>> /\ toUpdate = <<>> /\ toMove = <<>>
  /\ toReorder = <<>> /\ items = <<>> /\ toCreate # <<>>
  /\ LET sortedCreate == SortByKey(toCreate, LAMBDA x : x.index)
         it == Head(sortedCreate)
         r == ensureParentFolder(it.parentPath, tree, byPath, rootFolders,
                                 nextId)
         ok == CanCreate(r.tree, r.id, it.index)
         rp == ensureParentFolder(ParentOfParent(it.parentPath), tree,
                                  byPath, rootFolders, nextId)
     IN \E thrown \in BOOLEAN :
        /\ thrown => MayThrow(r)
        /\ byPath' = IF thrown THEN rp.byPath ELSE r.byPath
        /\ toCreate' = Tail(sortedCreate)
        /\ IF thrown
           THEN /\ tree' = rp.tree
                /\ nextId' = rp.nextId
                /\ log' = Append(log \o Mkdirs(rp, nextId),
                                 Mkdir(0, it.parentPath, FALSE))
                /\ errors' = Append(errors, "create")
                /\ faults' = faults - 1
                /\ UNCHANGED changes
           ELSE IF ~hasParentId(r)
           THEN /\ tree' = r.tree
                /\ nextId' = r.nextId
                /\ log' = log \o Mkdirs(r, nextId)
                /\ UNCHANGED <<changes, errors, faults>>
           ELSE \E fail \in BOOLEAN :
                  /\ fail = Fails(fail, ok)
                  /\ IF fail
                     THEN /\ errors' = Append(errors, "create")
                          /\ faults' = IF ok THEN faults - 1 ELSE faults
                          /\ tree' = r.tree
                          /\ nextId' = r.nextId
                          /\ UNCHANGED changes
                     ELSE /\ tree' = bookmarksCreate(r.tree, r.nextId, r.id,
                                       it.node.title, it.node.url, it.index)
                          /\ nextId' = r.nextId + 1
                          /\ changes' = changes + 1
                          /\ UNCHANGED <<errors, faults>>
                  /\ log' = Append(log \o Mkdirs(r, nextId),
                                   Prim("create", IF fail THEN 0 ELSE r.nextId,
                                        it.node.url, ~fail))
  /\ UNCHANGED <<bookmarks, wpc, runs, rootFolders, toDelete, toUpdate,
                 toMove, toReorder, items, currentChildren, reorderParent,
                 treeBefore, firstResult>>
  /\ UNCHANGED <<lockVars, diffVars, pullResult, browser, options, batchVars>>

\* a result that counts the calls that threw as well
WriteResult_countsThrown ==
  [success |-> errors = <<>>, changes |-> changes + Len(errors),
   errors |-> errors]

\* return { success: errors.length === 0, changes, errors }
WriteResult == [success |-> errors = <<>>, changes |-> changes,
                errors |-> errors]

WReturn ==
  /\ wpc = "run" /\ toDelete = <<>> /\ toUpdate = <<>> /\ toMove = <<>>
  /\ toReorder = <<>> /\ items = <<>> /\ toCreate = <<>>
  /\ wpc' = "done"
  /\ firstResult' = IF runs = 1 THEN WriteResult ELSE firstResult
  /\ UNCHANGED <<tree, nextId, bookmarks, runs, byPath, rootFolders,
                 toDelete, toUpdate, toMove, toReorder, toCreate, items,
                 currentChildren, reorderParent, changes, errors, log,
                 treeBefore, faults>>
  /\ UNCHANGED <<lockVars, diffVars, pullResult, browser, options, batchVars>>

\* writeBookmarks(bookmarks): the pass's result.changes, nothing else
writeBookmarks == WriteResult.changes

\* SyncEngine.pull after its write: count = await writeBookmarks(...);
\* return { success: true, changes: count }
PullReturn ==
  /\ wpc = "done" /\ pullResult.run # runs
  /\ pullResult' = [run |-> runs, success |-> TRUE, changes |-> writeBookmarks]
  /\ UNCHANGED <<lockVars, writerVars, diffVars, browser, options, batchVars>>

NextWriter ==
  \/ WStart
  \/ WLogChanges
  \/ WDelete
  \/ WUpdate
  \/ WMove
  \/ WReorderBegin
  \/ WReorderItem
  \/ WCreate
  \/ WReturn
  \/ PullReturn

SpecWriter == InitWriter /\ [][NextWriter]_vars

\* ------------------------------------------------------------------------
\* Properties of the lock and the engine (checked under SpecLock)
\* ------------------------------------------------------------------------

\* acquireLock has returned a token to the context and the context has not
\* called releaseLock yet
ConfirmedHolder(c) ==
  hist[c].got # NoToken /\ pc[c] \in FnPcs \cup {"release"}

\* no running acquireLock call has met a record past the staleness threshold
NoStaleRecord == \A c \in Ctx : ~hist[c].staleRead

\* C1: without forceReleaseLock and without a stale record, two contexts
\* are never confirmed holders at the same time.
C1_MutualExclusion ==
  (forced = 0 /\ NoStaleRecord) => ~(ConfirmedHolder(1) /\ ConfirmedHolder(2))

\* C2: the bodies run under withLock by two invocations never overlap,
\* whatever their duration.
C2_BodiesNeverOverlap == ~(InFn(1) /\ InFn(2))

\* C6: releaseLock removes the slot only when the record in the slot at the
\* moment of removal carries the releasing token.
C6_ReleaseRemovesOnlyOwn ==
  [][\A c \in Ctx :
       (pc[c] = "remove" /\ pc'[c] = "done" /\ slot # NoLock)
         => slot.holder = lockId[c]]_vars

\* C7: with no forceReleaseLock and no releaseLock call, an acquireLock call
\* that has read a record older than the staleness threshold writes its own
\* record and returns its token: it neither polls again nor ends in failure.
C7_AutoExpiry ==
  \A c \in Ctx :
    (hist[c].staleRead /\ forced = 0 /\ ~released)
      => /\ pc[c] \in {"verify"} \cup FnPcs \cup {"release"}
         /\ outcome[c] # LockError

C7_Witness ==
  \E c \in Ctx :
    /\ hist[c].staleRead /\ forced = 0 /\ ~released
    /\ InFn(c) /\ hist[c].got = lockId[c]

\* C8: fn runs only under a token returned by acquireLock; once fn has
\* settled releaseLock is called with that token and withLock settles as fn
\* did; without a token fn does not run and withLock throws the
\* lock-acquisition error, which no fn raises.
C8_WithLockContract ==
  \A c \in Ctx :
    /\ hist[c].fnRan => (hist[c].got = lockId[c] /\ lockId[c] # NoToken)
    /\ fnOutcome[c] # LockError
    /\ pc[c] = "done" =>
         IF hist[c].got # NoToken
         THEN /\ hist[c].fnRan
              /\ hist[c].relWith = hist[c].got
              /\ fnOutcome[c] # NoOutcome
              /\ outcome[c] = fnOutcome[c]
         ELSE /\ ~hist[c].fnRan
              /\ hist[c].relWith = NoToken
              /\ outcome[c] = LockError

C8_Witness ==
  \E c, d \in Ctx :
    /\ pc[c] = "done" /\ fnOutcome[c].kind = "error"
    /\ hist[c].relWith = hist[c].got /\ hist[c].got # NoToken
    /\ pc[d] = "done" /\ outcome[d] = LockError

\* push()/pull() gave up on the lock
LockFailure(c) == pc[c] = "done" /\ outcome[c] = LockError

\* C9 as stated (here only for runs without forceReleaseLock): a push or
\* pull that cannot acquire the lock returns success=false, has touched
\* neither the remote storage nor the live tree, and the slot still holds the
\* other holder's record.
C9_Original ==
  \A c \in Ctx :
    (LockFailure(c) /\ forced = 0) =>
      /\ ~SyncResult(outcome[c]).success
      /\ ~hist[c].rRead /\ ~hist[c].rWrite /\ ~hist[c].prims
      /\ hist[c].slotAtEnd # NoLock
      /\ hist[c].slotAtEnd.holder # lockId[c]

\* C9 amended: ... and the slot does not hold a record of the failed call
\* (it is empty or holds another holder's record).
C9_RefusesToStart ==
  \A c \in Ctx :
    LockFailure(c) =>
      /\ ~SyncResult(outcome[c]).success
      /\ ~hist[c].rRead /\ ~hist[c].rWrite /\ ~hist[c].prims
      /\ ~hist[c].fnRan
      /\ hist[c].slotAtEnd.holder # lockId[c]

C9_Witness ==
  \E c \in Ctx :
    /\ LockFailure(c) /\ hist[c].wrote
    /\ hist[c].slotAtEnd # NoLock

\* ------------------------------------------------------------------------
\* Properties of the incremental writer (checked under SpecWriter)
\* ------------------------------------------------------------------------
\* the url-bearing nodes of a tree with the titles of their ancestor
\* folders, in depth-first order
RECURSIVE FlatLeaves(_, _)
FlatLeaves(nodes, path) ==
  Flat([i \in 1..Len(nodes) |->
    (IF nodes[i].url # ""
     THEN <<[url |-> nodes[i].url, title |-> nodes[i].title, path |-> path]>>
     ELSE <<>>)
    \o (IF nodes[i].folder
        THEN FlatLeaves(nodes[i].children, Append(path, nodes[i].title))
        ELSE <<>>)])

UrlsOf(t) == {l.url : l \in Range(FlatLeaves(t, <<>>))}

\* a tree flattened by url
FlatByUrl(t) ==
  [u \in UrlsOf(t) |-> LastVisit(FlatLeaves(t, <<>>), LAMBDA l : l.url = u)]

\* a tree without its ids: titles, urls, nesting and sibling order
RECURSIVE Shape(_)
Shape(nodes) ==
  [i \in 1..Len(nodes) |->
     [nodes[i] EXCEPT !.id = 0, !.children = Shape(nodes[i].children)]]

\* the pass has returned success = true
PassSucceeded == wpc = "done" /\ errors = <<>>

\* no primitive has failed from outside
NoFaultYet == faults = MaxFaults

\* C3: after a pass that returned success = true the live tree flattened by
\* url has the urls of the desired tree, each with the desired title and
\* the desired folder path.
C3_Convergence == PassSucceeded => FlatByUrl(tree) = FlatByUrl(bookmarks)

\* C4: a second pass over the same desired tree, run right after a first
\* pass that succeeded, returns changes = 0 and no errors.
C4_SecondPassIdle ==
  (wpc = "done" /\ runs = 2 /\ firstResult.success /\ NoFaultYet)
    => (changes = 0 /\ errors = <<>>)

\* the url-bearing live nodes of the start of the pass whose url is in the
\* desired tree
Survivors ==
  {n \in Range(AllNodes(treeBefore)) :
     n.url # "" /\ n.url \in UrlsOf(bookmarks)}

\* C5: during and after a pass, every live node whose url is also in the
\* desired tree is still in the live tree under its id and url; no remove
\* was issued for it and no create for its url.
C5_IdentityPreserved ==
  wpc \in {"run", "done"} =>
    \A n \in Survivors :
      /\ NodeExists(tree, n.id)
      /\ NodeById(tree, n.id).url = n.url
      /\ \A i \in 1..Len(log) :
           /\ ~(log[i].op = "remove" /\ log[i].id = n.id)
           /\ ~(log[i].op = "create" /\ log[i].url = n.url)

C5_Witness ==
  /\ wpc = "done"
  /\ \E i, j, k \in 1..Len(log) :
       /\ log[i].op = "update" /\ log[i].ok
       /\ log[j].op = "move" /\ log[j].ok
       /\ log[k].op = "reorder" /\ log[k].ok
       /\ \A n \in {i, j, k} :
            \E s \in Survivors :
              s.id = log[n].id /\ NodeExists(tree, s.id)

\* C10: after a pass that returned success = true the live tree has the
\* folders of the desired tree, no more and no fewer, and every folder's
\* children in the desired order.
C10_StructureConverges == PassSucceeded => Shape(tree) = Shape(bookmarks)

\* ========================================================================
\* The differ (lib/bookmark/diff.ts) and pushBookmarks
\* (lib/sync/operations.ts)
\* ========================================================================
\* children of a tree handed to calculateDiff
MaxDiffKids == 2

\* nodes of those trees: the same url under two titles, two more urls,
\* empty and nested empty folders, and a folder whose title holds a '/'
DiffItems ==
  {Leaf("u1", "A"), Leaf("u1", "B"), Leaf("u2", "A"), Leaf("u3", "A"),
   Folder("X", <<>>), Folder("X", <<Leaf("u1", "A")>>),
   Folder("X/Y", <<Leaf("u1", "A")>>),
   Folder("X", <<Folder("Y", <<Leaf("u1", "A")>>)>>),
   Folder("X", <<Folder("Y", <<>>), Leaf("u1", "B")>>)}
DiffTrees == UNION {[1..k -> DiffItems] : k \in 0..MaxDiffKids}

\* a title as its pieces between '/' characters: String.prototype.split('/')
split(title) == IF title = "X/Y" THEN <<"X", "Y">> ELSE <<title>>

\* path.join('/'), as the pieces of the joined string
join(path) ==
  IF path = <<>> THEN <<"">> ELSE Flat([i \in 1..Len(path) |-> split(path[i])])

\* a flattening that keeps an entry for every visit
flattenBookmarks_everyVisit(nodes) == FlatLeaves(nodes, <<>>)

\* flattenBookmarks: the Map as its entries in insertion order; a url met
\* again keeps its place and takes the later title and path
flattenBookmarks(nodes) ==
  LET visits == FlatLeaves(nodes, <<>>)
      keys == KeyOrder([i \in 1..Len(visits) |-> visits[i].url], {})
  IN [i \in 1..Len(keys) |->
        LastVisit(visits, LAMBDA l : l.url = keys[i])]

\* Map.has, Map.get
mapHas(map, url) == \E i \in 1..Len(map) : map[i].url = url
mapGet(map, url) == map[CHOOSE i \in 1..Len(map) : map[i].url = url]

titleChanged_always(sourceItem, targetItem) == TRUE

titleChanged(sourceItem, targetItem) == sourceItem.title # targetItem.title

pathChanged_never(sourceItem, targetItem) == FALSE

pathChanged(sourceItem, targetItem) ==
  join(sourceItem.path) # join(targetItem.path)

\* a DiffItem; oldTitle is <<>> when undefined
DiffItem(type, item, oldTitle) ==
  [type |-> type, path |-> item.path, title |-> item.title,
   url |-> item.url, oldTitle |-> oldTitle]

addedItems_all(sourceMap, targetMap) ==
  [i \in 1..Len(targetMap) |-> DiffItem("added", targetMap[i], <<>>)]

addedItems(sourceMap, targetMap) ==
  LET sel == SelectSeq(targetMap, LAMBDA t : ~mapHas(sourceMap, t.url))
  IN [i \in 1..Len(sel) |-> DiffItem("added", sel[i], <<>>)]

modifiedItems(sourceMap, targetMap) ==
  LET sel == SelectSeq(targetMap, LAMBDA t :
               /\ mapHas(sourceMap, t.url)
               /\ \/ titleChanged(mapGet(sourceMap, t.url), t)
                  \/ pathChanged(mapGet(sourceMap, t.url), t))
  IN [i \in 1..Len(sel) |->
        DiffItem("modified", sel[i],
                 IF titleChanged(mapGet(sourceMap, sel[i].url), sel[i])
                 THEN <<mapGet(sourceMap, sel[i].url).title>> ELSE <<>>)]

removedItems_none(sourceMap, targetMap) == <<>>

removedItems(sourceMap, targetMap) ==
  LET sel == SelectSeq(sourceMap, LAMBDA x : ~mapHas(targetMap, x.url))
  IN [i \in 1..Len(sel) |-> DiffItem("removed", sel[i], <<>>)]

hasChangesOf_ignoreModified(added, removed, modified) ==
  Len(added) > 0 \/ Len(removed) > 0

hasChangesOf(added, removed, modified) ==
  Len(added) > 0 \/ Len(removed) > 0 \/ Len(modified) > 0

calculateDiff(src, tgt) ==
  LET sourceMap == flattenBookmarks(src)
      targetMap == flattenBookmarks(tgt)
      added == addedItems(sourceMap, targetMap)
      removed == removedItems(sourceMap, targetMap)
      modified == modifiedItems(sourceMap, targetMap)
  IN [added |-> added, removed |-> removed, modified |-> modified,
      hasChanges |-> hasChangesOf(added, removed, modified)]

\* the remote holds source, the local tree is target
InitDiff ==
  /\ LockAtRest /\ remoteData = "none" /\ BatchAtRest
  /\ WriterAtRest /\ tree = <<>> /\ bookmarks = <<>> /\ faults = 0
  /\ pullResult = NoPull /\ browser = "chromium"
  /\ source \in DiffTrees /\ target \in DiffTrees
  /\ dpc = "idle" /\ diff = NoDiff /\ diffBack = NoDiff
  /\ payload = source /\ pushResult = "none" /\ options = NoOptions

\* calculateDiff(source, target)
CalculateDiff ==
  /\ dpc = "idle"
  /\ diff' = calculateDiff(source, target)
  /\ dpc' = "diffed"
  /\ UNCHANGED <<source, target, diffBack, payload, pushResult>>
  /\ UNCHANGED <<lockVars, writerVars, pullResult, browser, options, batchVars>>

\* the same two trees the other way round: calculateDiff(target, source)
CalculateDiffBack ==
  /\ dpc = "diffed"
  /\ diffBack' = calculateDiff(target, source)
  /\ dpc' = "both"
  /\ UNCHANGED <<source, target, diff, payload, pushResult>>
  /\ UNCHANGED <<lockVars, writerVars, pullResult, browser, options, batchVars>>

\* what engine.push() leaves in the remote and returns to pushBookmarks
enginePush(pushOk) ==
  IF pushOk THEN [payload |-> target, result |-> "success"]
  ELSE [payload |-> payload, result |-> "failure"]

\* pushBookmarks(backup): with a gistId it first reads the remote and
\* returns success without pushing when the diff has no changes; a failed
\* read is swallowed; otherwise engine.push() writes the local tree or fails
PushBookmarks ==
  /\ dpc = "idle"
  /\ \E hasGistId, readOk, pushOk \in BOOLEAN :
       LET diffResult == calculateDiff(payload, target)
           r == IF hasGistId /\ readOk /\ ~diffResult.hasChanges
                THEN [payload |-> payload, result |-> "success"]
                ELSE enginePush(pushOk)
       IN /\ payload' = r.payload
          /\ pushResult' = r.result
  /\ dpc' = "pushed"
  /\ UNCHANGED <<source, target, diff, diffBack>>
  /\ UNCHANGED <<lockVars, writerVars, pullResult, browser, options, batchVars>>

NextDiff ==
  \/ CalculateDiff
  \/ CalculateDiffBack
  \/ PushBookmarks

SpecDiff == InitDiff /\ [][NextDiff]_vars

\* C11: after pushBookmarks returns success = true the remote payload holds
\* the local tree as read, folders and sibling order included, whatever the
\* remote held before.
C11_PushOverwritesRemote == pushResult = "success" => payload = target

\* C12: SyncEngine.pull returns success = true only when the pass it ran
\* recorded no primitive failure.
C12_PullReportsFailures ==
  (wpc = "done" /\ pullResult.run = runs /\ pullResult.success)
    => errors = <<>>

\* pull() of context c is back after storage.read() returned null
PullNoData(c) ==
  pc[c] = "done" /\ op[c] = "pull" /\ fnOutcome[c] = Thrown("noData")

\* C13: when the remote read returns null, pull returns success = false
\* with the no-data error type, has issued no live-tree primitive and has
\* released its lock: releaseLock ran with the pull's token and the slot
\* does not hold that token when pull returns.
C13_PullNoData ==
  \A c \in Ctx :
    /\ (op[c] = "pull" /\ fnOutcome[c] = Thrown("noData")) =>
         (hist[c].rRead /\ ~hist[c].prims /\ ~hist[c].rWrite)
    /\ PullNoData(c) =>
         /\ ~SyncResult(outcome[c]).success
         /\ SyncResult(outcome[c]).errorType = "noData"
         /\ ~hist[c].prims
         /\ hist[c].relWith = lockId[c] /\ lockId[c] # NoToken
         /\ slot.holder # lockId[c]

C13_Witness ==
  \E c \in Ctx : PullNoData(c) /\ hist[c].relResult = "true"

\* the urls of a list of DiffItems
DiffUrls(list) == {list[i].url : i \in 1..Len(list)}

\* C14: the urls added by calculateDiff(A, B) are those removed by
\* calculateDiff(B, A) and the other way round, and both calls report the
\* same urls as modified.
C14_DiffSymmetric ==
  dpc = "both" =>
    /\ DiffUrls(diff.added) = DiffUrls(diffBack.removed)
    /\ DiffUrls(diff.removed) = DiffUrls(diffBack.added)
    /\ DiffUrls(diff.modified) = DiffUrls(diffBack.modified)

C14_Witness ==
  /\ dpc = "both"
  /\ diff.added # <<>> /\ diff.removed # <<>> /\ diff.modified # <<>>

\* an empty folder inside a folder
RECURSIVE HasNestedEmptyFolder(_, _)
HasNestedEmptyFolder(nodes, depth) ==
  \E i \in 1..Len(nodes) :
    /\ nodes[i].folder
    /\ \/ depth > 0 /\ nodes[i].children = <<>>
       \/ HasNestedEmptyFolder(nodes[i].children, depth + 1)

\* some url occurs more than once
HasRepeatedUrl(nodes) ==
  Len(FlatLeaves(nodes, <<>>)) > Cardinality(UrlsOf(nodes))

\* C15: calculateDiff(A, A) has empty added, removed and modified lists and
\* hasChanges = false, for trees with nested empty folders and repeated
\* urls as for any other.
C15_DiffOfSelfIsEmpty ==
  (dpc # "idle" /\ dpc # "pushed" /\ source = target) => diff = NoDiff

C15_Witness ==
  /\ dpc = "diffed" /\ source = target
  /\ HasNestedEmptyFolder(source, 0) /\ HasRepeatedUrl(source)

\* a sequence without its i-th element
Without(s, i) == SubSeq(s, 1, i - 1) \o SubSeq(s, i + 1, Len(s))

\* two sequences with the same elements, each as many times
SameBag(a, b) ==
  /\ Len(a) = Len(b)
  /\ \A x \in Range(a) \cup Range(b) :
       Cardinality({i \in 1..Len(a) : a[i] = x})
         = Cardinality({i \in 1..Len(b) : b[i] = x})

\* tgt is src plus one bookmark with a new url minus one bookmark of src
PlusOneMinusOne(src, tgt) ==
  LET ls == FlatLeaves(src, <<>>)
      lt == FlatLeaves(tgt, <<>>)
  IN \E i \in 1..Len(ls), j \in 1..Len(lt) :
       /\ lt[j].url \notin UrlsOf(src)
       /\ SameBag(Without(ls, i), Without(lt, j))

\* added and removed hold the urls of one tree that are absent from the
\* other, each once
AddedRemovedExact ==
  /\ DiffUrls(diff.added) = UrlsOf(target) \ UrlsOf(source)
  /\ DiffUrls(diff.removed) = UrlsOf(source) \ UrlsOf(target)
  /\ Len(diff.added) = Cardinality(DiffUrls(diff.added))
  /\ Len(diff.removed) = Cardinality(DiffUrls(diff.removed))
  /\ \A i \in 1..Len(diff.added) : diff.added[i].type = "added"
  /\ \A i \in 1..Len(diff.removed) : diff.removed[i].type = "removed"

OneAddedOneRemoved ==
  /\ Len(diff.added) = 1 /\ Len(diff.removed) = 1
  /\ Len(diff.modified) = 0 /\ diff.hasChanges

\* calculateDiff(source, target) has returned
Diffed == dpc \in {"diffed", "both"}

\* C16 as stated: added and removed are exact for any two trees, and a
\* target that is the source plus one new bookmark minus one existing
\* bookmark gives one added, one removed and no modified item.
C16_Original ==
  Diffed =>
    /\ AddedRemovedExact
    /\ PlusOneMinusOne(source, target) => OneAddedOneRemoved

\* C16 amended: the same, the second part for a source in which no url
\* occurs twice.
C16_AddedRemovedExact ==
  Diffed =>
    /\ AddedRemovedExact
    /\ (PlusOneMinusOne(source, target) /\ ~HasRepeatedUrl(source))
         => OneAddedOneRemoved

C16_Witness ==
  /\ Diffed
  /\ PlusOneMinusOne(source, target) /\ ~HasRepeatedUrl(source)
  /\ Len(FlatLeaves(source, <<>>)) > 1
  /\ OneAddedOneRemoved

\* the modified items of calculateDiff(source, target) for url u
ModifiedFor(u) == {i \in 1..Len(diff.modified) : diff.modified[i].url = u}

\* for a url of both trees: one modified item if changed holds and none
\* otherwise; the item carries the target's title and path, and the source
\* title as oldTitle only if the title differs
ModifiedAsExpected(u, changed) ==
  LET s == FlatByUrl(source)[u]
      t == FlatByUrl(target)[u]
  IN /\ Cardinality(ModifiedFor(u)) = IF changed THEN 1 ELSE 0
     /\ \A i \in ModifiedFor(u) :
          /\ diff.modified[i].type = "modified"
          /\ diff.modified[i].title = t.title
          /\ diff.modified[i].path = t.path
          /\ diff.modified[i].oldTitle =
               IF s.title # t.title THEN <<s.title>> ELSE <<>>

InBoth == UrlsOf(source) \cap UrlsOf(target)

\* C17 as stated: a url of both trees is modified, once, iff its title or
\* its folder path differs; oldTitle is the source title when the title
\* differs and absent otherwise.
C17_Original ==
  Diffed =>
    /\ DiffUrls(diff.modified) \subseteq InBoth
    /\ \A u \in InBoth :
         ModifiedAsExpected(u,
           \/ FlatByUrl(source)[u].title # FlatByUrl(target)[u].title
           \/ FlatByUrl(source)[u].path # FlatByUrl(target)[u].path)

\* C17 amended: the same with the two folder paths compared as joined by
\* '/', so that the paths ['X/Y'] and ['X', 'Y'] do not differ.
C17_ModifiedOnce ==
  Diffed =>
    /\ DiffUrls(diff.modified) \subseteq InBoth
    /\ \A u \in InBoth :
         ModifiedAsExpected(u,
           \/ FlatByUrl(source)[u].title # FlatByUrl(target)[u].title
           \/ join(FlatByUrl(source)[u].path)
                # join(FlatByUrl(target)[u].path))

C17_Witness ==
  /\ Diffed
  /\ \E u \in InBoth :
       /\ FlatByUrl(source)[u].title # FlatByUrl(target)[u].title
       /\ join(FlatByUrl(source)[u].path) # join(FlatByUrl(target)[u].path)
       /\ Cardinality(ModifiedFor(u)) = 1

\* hasChanges = (added.length + removed.length + modified.length > 0)
HasChangesConsistent(result) ==
  result.hasChanges
    = (Len(result.added) + Len(result.removed) + Len(result.modified) > 0)

\* C18: every DiffResult that calculateDiff returns has hasChanges true
\* exactly when one of its three lists is not empty.
C18_HasChangesInvariant ==
  /\ Diffed => HasChangesConsistent(diff)
  /\ dpc = "both" => HasChangesConsistent(diffBack)

C18_Witness ==
  /\ dpc = "both"
  /\ diff.hasChanges /\ diff.added = <<>> /\ diff.removed = <<>>
  /\ diffBack.hasChanges

\* the items of the reorder groups not yet begun
RECURSIVE GroupItems(_)
GroupItems(groups) ==
  IF groups = <<>> THEN 0
  ELSE Len(Head(groups).items) + GroupItems(Tail(groups))

\* the queued items that the pass has not come to yet
PendingItems ==
  Len(toDelete) + Len(toUpdate) + Len(toMove) + GroupItems(toReorder)
    + Len(items) + Len(toCreate)

\* C19: a primitive that fails adds one error and costs the pass only the
\* item it was issued for: every other queued item of the phase and of the
\* later phases is still to come, and the pass goes on.
C19_FailureDoesNotAbort ==
  [][Len(errors') > Len(errors) =>
       /\ Len(errors') = Len(errors) + 1
       /\ wpc' = "run"
       /\ PendingItems' = PendingItems - 1]_vars

\* url u occurs once in tree t
OccursOnce(t, u) ==
  Cardinality({i \in 1..Len(FlatLeaves(t, <<>>)) :
                 FlatLeaves(t, <<>>)[i].url = u}) = 1

\* the path of a folder directly under the root
TopLevel(path) == Len(path) = 2 /\ path[1] = ""

\* the desired tree holds u under one top-level folder and the live tree,
\* before the pass, holds it with the same title under another
MovedAcrossTopFolders(u) ==
  /\ u \in UrlsOf(treeBefore) /\ OccursOnce(treeBefore, u)
  /\ u \in UrlsOf(bookmarks) /\ OccursOnce(bookmarks, u)
  /\ FlatByUrl(treeBefore)[u].title = FlatByUrl(bookmarks)[u].title
  /\ TopLevel(FlatByUrl(treeBefore)[u].path)
  /\ TopLevel(FlatByUrl(bookmarks)[u].path)
  /\ FlatByUrl(treeBefore)[u].path # FlatByUrl(bookmarks)[u].path

\* the primitives of kind o issued for url u in this pass
PrimsFor(o, u) == {i \in 1..Len(log) : log[i].op = o /\ log[i].url = u}

\* C20: a bookmark that the desired tree holds under the folder Bar and the
\* live tree holds, with the same title, under the folder Foo gets exactly
\* one move and no create or remove, and is under Bar with its id
\* afterwards (a pass in which no primitive failed).
C20_OneMoveAcrossFolders ==
  (wpc = "done" /\ errors = <<>>) =>
    \A u \in UrlsOf(bookmarks) :
      MovedAcrossTopFolders(u) =>
        LET n == CHOOSE n \in Range(AllNodes(treeBefore)) : n.url = u
        IN /\ Cardinality(PrimsFor("move", u)) = 1
           /\ PrimsFor("create", u) = {} /\ PrimsFor("remove", u) = {}
           /\ NodeExists(tree, n.id) /\ NodeById(tree, n.id).url = u
           /\ OccursOnce(tree, u)
           /\ FlatByUrl(tree)[u].path = FlatByUrl(bookmarks)[u].path

\* ========================================================================
\* forceReleaseLock during a locked operation (checked under SpecLock)
\* ========================================================================
\* C22: forceReleaseLock called while a context runs the body passed to
\* withLock does not stop that body; the body runs to its end, and the
\* releaseLock of withLock's finally, called with the context's own token,
\* finds another holder or no record, returns false and leaves the record
\* as it found it; withLock then settles with the body's outcome.
C22_ForceDoesNotStop ==
  [][\A c \in Ctx :
       /\ (forced' # forced /\ InFn(c)) =>
            (pc'[c] = pc[c] /\ buf'[c] = buf[c] /\ hist'[c].forcedInFn)
       /\ (hist[c].forcedInFn /\ InFn(c)) =>
            (InFn(c)' \/ pc'[c] = "release")
       /\ (hist[c].forcedInFn /\ pc[c] = "release") =>
            /\ slot.holder # lockId[c]
            /\ pc'[c] = "release" \/
                 /\ pc'[c] = "done"
                 /\ hist'[c].relWith = lockId[c]
                 /\ hist'[c].relResult = "false"
                 /\ slot' = slot
                 /\ outcome'[c] = fnOutcome[c] /\ fnOutcome[c] # NoOutcome]_vars

\* a forced release hit a running body, whose release then returned false
\* and left the record of another holder in the slot
C22_Witness ==
  \E c \in Ctx :
    /\ hist[c].forcedInFn /\ pc[c] = "done"
    /\ hist[c].relResult = "false"
    /\ hist[c].slotAtEnd # NoLock /\ slot = hist[c].slotAtEnd

\* ========================================================================
\* calculateSyncDiff (lib/sync/operations.ts) over trees with and without
\* the unnamed root (checked under SpecSyncDiff)
\* ========================================================================
\* children of a tree below its root, if it has one
MaxSyncKids == 1

SyncItems ==
  {Leaf("u1", "A"), Leaf("u2", "A"),
   Folder("Bar", <<Leaf("u1", "A")>>), Folder("Foo", <<Leaf("u1", "A")>>)}
PlainSyncTrees == UNION {[1..k -> SyncItems] : k \in 0..MaxSyncKids}
\* a forest as such, or under a root node with an empty title
SyncTrees == PlainSyncTrees \cup {<<Folder("", t)>> : t \in PlainSyncTrees}

\* the remote payload holds source, the local bookmarks are target
InitSyncDiff ==
  /\ LockAtRest /\ remoteData = "none" /\ BatchAtRest
  /\ WriterAtRest /\ tree = <<>> /\ bookmarks = <<>> /\ faults = 0
  /\ pullResult = NoPull /\ browser = "chromium"
  /\ source \in SyncTrees /\ target \in SyncTrees
  /\ dpc = "idle" /\ diff = NoDiff /\ diffBack = NoDiff
  /\ payload = source /\ pushResult = "none" /\ options = NoOptions

\* calculateDiff called with a third argument: the function declares
\* (source, target) and reads nothing else
calculateDiffWith(src, tgt, opts) == calculateDiff(src, tgt)

\* calculateSyncDiff(backup, direction): null without a gistId, without
\* remote data or on a throw; else the diff in the direction's order with
\* skipRootPath = !!backup.folderPath
CalculateSyncDiff(direction) ==
  /\ dpc = "idle"
  /\ \E hasGistId, readOk, folderPath \in BOOLEAN :
       IF ~hasGistId \/ ~readOk
       THEN /\ dpc' = "null"
            /\ UNCHANGED <<diff, options>>
       ELSE /\ options' = [skipRootPath |-> folderPath]
            /\ diff' = IF direction = "push"
                       THEN calculateDiffWith(payload, target, options')
                       ELSE calculateDiffWith(target, payload, options')
            /\ dpc' = direction
  /\ UNCHANGED <<source, target, diffBack, payload, pushResult>>
  /\ UNCHANGED <<lockVars, writerVars, pullResult, browser, batchVars>>

NextSyncDiff == \E direction \in {"push", "pull"} : CalculateSyncDiff(direction)

SpecSyncDiff == InitSyncDiff /\ [][NextSyncDiff]_vars

\* the first and the second argument of the calculateDiff call made
SyncSource == IF dpc = "push" THEN payload ELSE target
SyncTarget == IF dpc = "push" THEN target ELSE payload

\* two folder paths of the same length that differ in their first segment
\* and in no other
DifferOnlyInFirst(p, q) ==
  /\ Len(p) = Len(q) /\ Len(p) >= 1
  /\ p[1] # q[1] /\ Tail(p) = Tail(q)

\* url u is in both trees under the same title, its two folder paths differ
\* in the first segment only
OnlyRootDiffers(u) ==
  /\ mapHas(flattenBookmarks(SyncSource), u)
  /\ mapHas(flattenBookmarks(SyncTarget), u)
  /\ mapGet(flattenBookmarks(SyncSource), u).title
       = mapGet(flattenBookmarks(SyncTarget), u).title
  /\ DifferOnlyInFirst(mapGet(flattenBookmarks(SyncSource), u).path,
                       mapGet(flattenBookmarks(SyncTarget), u).path)

\* C23: a bookmark with the same url and title whose folder paths in source
\* and target differ only in their first segment is not reported as
\* modified when calculateDiff is called with skipRootPath set, and is
\* reported as modified when the option is not set.
C23_SkipRootPath ==
  dpc \in {"push", "pull"} =>
    \A u \in {"u1", "u2"} :
      OnlyRootDiffers(u) =>
        (u \in DiffUrls(diff.modified) <=> ~options.skipRootPath)

\* a tree that is one folder with an empty title
UnderUnnamedRoot(t) == Len(t) = 1 /\ t[1].folder /\ t[1].title = ""

\* C24: flattening does not append the title of a node with an empty title
\* and children to the paths of its descendants: a tree under such a root
\* flattens to the paths of the tree without it, and the diff of a tree
\* against the same tree under such a root reports no bookmark as modified.
C24_TransparentRoot ==
  dpc \in {"push", "pull"} =>
    /\ \A t \in {SyncSource, SyncTarget} :
         UnderUnnamedRoot(t) =>
           flattenBookmarks(t) = flattenBookmarks(t[1].children)
    /\ SyncSource = <<Folder("", SyncTarget)>> => diff.modified = <<>>
    /\ SyncTarget = <<Folder("", SyncSource)>> => diff.modified = <<>>

\* ========================================================================
\* Reordering inside one folder (checked under SpecReorder)
\* ========================================================================
\* bookmarks of the live bookmarks bar / of the desired folder Bar
MaxReorderKids == 3

\* three live bookmarks with urls of their own, and the first one retitled
ReorderLeaves == {Leaf("u1", "X"), Leaf("u2", "Y"), Leaf("u3", "Z")}
Retitled == Leaf("u1", "W")
\* a bookmark the live tree does not hold
NewLeaf == Leaf("u4", "V")

\* the sequences of at most n nodes of S with pairwise different urls
DistinctSeqs(S, n) ==
  {s \in UNION {[1..k -> S] : k \in 0..n} :
     \A i, j \in 1..Len(s) : i # j => s[i].url # s[j].url}

ReorderLive ==
  {<<[id |-> 0, title |-> "", url |-> "", folder |-> TRUE,
      children |-> Label(<<Folder("Bar", k), Folder("Other", <<>>)>>, 0)]>> :
     k \in DistinctSeqs(ReorderLeaves, MaxReorderKids)}

ReorderDesired ==
  {<<Folder("", <<Folder("Bar", k1), Folder("Other", k2)>>)>> :
     k1 \in DistinctSeqs(ReorderLeaves \cup {Retitled, NewLeaf},
                        MaxReorderKids),
     k2 \in {<<>>, <<Leaf("u3", "Z")>>}}

InitReorder ==
  /\ LockAtRest /\ remoteData = "none" /\ BatchAtRest
  /\ DiffAtRest /\ pullResult = NoPull /\ browser \in Browsers
  /\ WriterAtRest
  /\ tree \in ReorderLive
  /\ bookmarks \in ReorderDesired
  /\ faults = MaxFaults

SpecReorder == InitReorder /\ [][NextWriter]_vars

\* the children of the first top-level folder of a live / a desired tree
BarOf(t) == t[1].children[1].children
OtherOf(t) == t[1].children[2].children

\* at the start of the pass the live folder Bar and the desired folder Bar
\* hold the same bookmarks, in a different order, and nothing else differs
SameBookmarksOtherOrder ==
  /\ treeBefore # <<>>
  /\ Range(Shape(BarOf(treeBefore))) = Range(BarOf(bookmarks))
  /\ Len(BarOf(treeBefore)) = Len(BarOf(bookmarks))
  /\ Shape(BarOf(treeBefore)) # BarOf(bookmarks)
  /\ OtherOf(treeBefore) = <<>> /\ OtherOf(bookmarks) = <<>>

\* C21: when the live and the desired folder hold the same bookmarks in a
\* different order, a pass in which no primitive fails issues same-parent
\* moves only (no remove, no create) and leaves the folder's children in
\* the desired order.
C21_ReorderOnly ==
  (wpc = "done" /\ NoFaultYet /\ SameBookmarksOtherOrder) =>
    /\ \A i \in 1..Len(log) : log[i].op = "reorder"
    /\ Shape(BarOf(tree)) = BarOf(bookmarks)

\* ------------------------------------------------------------------------
\* The order of the phases of a pass
\* ------------------------------------------------------------------------
\* the phase a primitive belongs to; folder creations belong to none
PhaseOf(o) ==
  CASE o = "remove" -> 1
    [] o = "update" -> 2
    [] o = "move" -> 3
    [] o = "reorder" -> 4
    [] o = "create" -> 5
    [] OTHER -> 0

OpsIssued == {log[i].op : i \in 1..Len(log)}

\* C25: within one pass every remove is issued before any title update,
\* every update before any cross-folder move, every cross-folder move
\* before any same-folder reorder, and every reorder before any bookmark
\* create.
C25_PhaseOrder ==
  \A i, j \in 1..Len(log) :
    (i < j /\ PhaseOf(log[i].op) # 0 /\ PhaseOf(log[j].op) # 0)
      => PhaseOf(log[i].op) <= PhaseOf(log[j].op)

\* a pass that issued primitives of all five phases
C25_Witness ==
  /\ wpc = "done"
  /\ {"remove", "update", "move", "reorder", "create"} \subseteq OpsIssued

\* ------------------------------------------------------------------------
\* The classification made by computeChanges
\* ------------------------------------------------------------------------
\* the url-bearing nodes of a desired tree, each with the path of its
\* ancestor folders (the unnamed root left out) and its sibling index
RECURSIVE Placed(_, _)
Placed(nodes, path) ==
  Flat([i \in 1..Len(nodes) |->
    IF nodes[i].url # ""
    THEN <<[node |-> [title |-> nodes[i].title, url |-> nodes[i].url],
            parentPath |-> path, index |-> i - 1]>>
    ELSE Placed(nodes[i].children,
                IF path = <<>> /\ nodes[i].title = "" THEN <<>>
                ELSE Append(path, nodes[i].title))])

\* a queue entry without its browser id
Strip(e) == [node |-> e.node, parentPath |-> e.parentPath, index |-> e.index]

\* the desired node l has an entry in queue q
Queued(q, l) == \E i \in 1..Len(q) : Strip(q[i]) = l

\* the entries of the reorder groups
ReorderEntries == Flat([g \in 1..Len(toReorder) |-> toReorder[g].items])

\* the queues are the classification of the desired tree against the live
\* index
Classified ==
  LET byUrl == buildByUrl(tree)
      live(l) == byUrl[l.node.url]
      desired == Range(Placed(bookmarks, <<>>))
      entries == Range(toCreate) \cup Range(toUpdate) \cup Range(toMove)
                   \cup Range(ReorderEntries)
  IN /\ \A l \in desired :
          LET known == l.node.url \in DOMAIN byUrl IN
          /\ Queued(toCreate, l) <=> ~known
          /\ Queued(toMove, l) <=>
               (known /\ live(l).parentPath # l.parentPath)
          /\ Queued(ReorderEntries, l) <=>
               (known /\ live(l).parentPath = l.parentPath
                      /\ live(l).index # l.index)
          /\ Queued(toUpdate, l) <=> (known /\ live(l).title # l.node.title)
          /\ ~(Queued(toMove, l) /\ Queued(ReorderEntries, l))
     /\ \A e \in entries :
          /\ Strip(e) \in desired
          /\ e.node.url \in DOMAIN byUrl => e.browserId = byUrl[e.node.url].id
     /\ \A i \in 1..Len(toDelete) :
          /\ NodeExists(tree, toDelete[i])
          /\ NodeById(tree, toDelete[i]).url \notin UrlsOf(bookmarks)

\* C26: computeChanges puts a url-bearing node of the desired tree into
\* toCreate iff its url is not in the live index; otherwise into toMove iff
\* the live parent path differs from the desired one, else into toReorder
\* iff the live sibling index differs; and, whatever the former, into
\* toUpdate iff the live title differs. No desired node is in both toMove
\* and toReorder, and toDelete holds no node whose url is in the desired
\* tree.
C26_Classification == wpc = "computed" => Classified

\* computeChanges has classified one url as move and update, and queued a
\* delete, out of a live tree that holds a url twice
C26_Witness ==
  /\ wpc = "computed" /\ Classified
  /\ toDelete # <<>>
  /\ \E i \in 1..Len(toMove), j \in 1..Len(toUpdate) :
       toMove[i].node.url = toUpdate[j].node.url
  /\ \E u \in UrlsOf(tree) : ~OccursOnce(tree, u)

\* ------------------------------------------------------------------------
\* The delete phase
\* ------------------------------------------------------------------------
\* the delete loop has ended and the later phases have not acted yet
AfterDeletePhase ==
  /\ wpc = "run" /\ toDelete = <<>>
  /\ \A i \in 1..Len(log) : log[i].op = "remove"

\* no remove primitive failed
NoRemoveFailed == \A i \in 1..Len(log) : log[i].op = "remove" => log[i].ok

\* C27: after the delete phase, if no remove failed, the live tree holds no
\* bookmark whose url is absent from the desired tree, also when the live
\* tree held several bookmarks with that url.
C27_DeletePhaseComplete ==
  (AfterDeletePhase /\ NoRemoveFailed) => UrlsOf(tree) \subseteq UrlsOf(bookmarks)

\* ------------------------------------------------------------------------
\* Folders created on demand
\* ------------------------------------------------------------------------
\* the folder paths the pass issued a folder create for
MkdirPaths == {log[i].path : i \in {k \in 1..Len(log) : log[k].op = "mkdir"}}

\* the folder creates issued / completed for path p
MkdirCalls(p) == {i \in 1..Len(log) : log[i].op = "mkdir" /\ log[i].path = p}
MkdirsDone(p) == {i \in MkdirCalls(p) : log[i].ok}

\* the folders of tree t whose path is p
FoldersAt(t, p) ==
  {v.id : v \in {w \in Range(traverse(t, <<>>)) : w.url = "" /\ w.path = p}}

\* no folder create is issued for a top-level container or for a path that
\* the index of the start of the pass holds
OnlyMissingPaths ==
  \A p \in MkdirPaths :
    /\ p \notin DOMAIN getRootFolders(treeBefore)
    /\ p \notin DOMAIN buildByPath(treeBefore)

\* C28 as stated: for every folder path missing from the live tree the
\* pass issues at most one folder create, and none for a top-level
\* container or an indexed path.
C28_Original ==
  wpc \in {"run", "done"} =>
    /\ \A p \in MkdirPaths : Cardinality(MkdirCalls(p)) <= 1
    /\ OnlyMissingPaths

\* C28, amended: for every folder path missing from the live tree at most
\* one folder create completes in a pass (a create that threw may be issued
\* again for a later item), none is issued for a top-level container or an
\* indexed path, and the live tree holds one folder at each such path.
C28_OneFolderPerPath ==
  wpc \in {"run", "done"} =>
    /\ \A p \in MkdirPaths :
         /\ Cardinality(MkdirsDone(p)) <= 1
         /\ Cardinality(FoldersAt(tree, p)) = Cardinality(MkdirsDone(p))
    /\ OnlyMissingPaths

\* a pass in which two items went to the same missing folder path, and one
\* folder was created for it
C28_Witness ==
  /\ wpc = "done"
  /\ \E p \in MkdirPaths :
       /\ Cardinality(MkdirsDone(p)) = 1
       /\ Cardinality({i \in 1..Len(log) :
            /\ log[i].op \in {"move", "create"} /\ log[i].ok
            /\ NodeExists(tree, log[i].id)
            /\ ParentIdOf(tree, log[i].id) \in FoldersAt(tree, p)}) = 2


\* ------------------------------------------------------------------------
\* The result of a pass
\* ------------------------------------------------------------------------
\* the remove, update, move, reorder and bookmark create calls of the pass
\* that returned
CallsCompleted ==
  {i \in 1..Len(log) : PhaseOf(log[i].op) # 0 /\ log[i].ok}

\* the calls of the pass that threw, folder creates included
CallsThrown == {i \in 1..Len(log) : ~log[i].ok}

\* C29: the result of a pass has changes = the number of remove, update,
\* move, reorder and bookmark create calls that completed without error
\* (folder creations are not counted) and success = TRUE iff the error
\* list is empty.
C29_ResultCounts ==
  wpc = "done" =>
    /\ WriteResult.changes = Cardinality(CallsCompleted)
    /\ WriteResult.success <=> WriteResult.errors = <<>>
    /\ WriteResult.errors = <<>> <=> CallsThrown = {}

\* a returned pass with a folder created, a call that threw and calls that
\* completed
C29_Witness ==
  /\ wpc = "done"
  /\ \E i \in 1..Len(log) : log[i].op = "mkdir" /\ log[i].ok
  /\ CallsThrown # {} /\ Cardinality(CallsCompleted) >= 2
  /\ ~WriteResult.success

\* ------------------------------------------------------------------------
\* The in-memory child list of a reorder batch
\* ------------------------------------------------------------------------
\* the ids of a child list, in order
IdsOf(children) == [i \in 1..Len(children) |-> children[i].id]

\* the last call of the pass so far is a reorder move that returned
JustReordered ==
  /\ wpc = "run" /\ log # <<>>
  /\ Last(log).op = "reorder" /\ Last(log).ok

\* C30: during a reorder batch, with nothing else mutating the tree, after
\* every physical move the writer's in-memory child list (currentChildren)
\* is the ordered child list of the folder in the live tree.
C30_MirrorMatchesTree ==
  JustReordered =>
    IdsOf(currentChildren) = IdsOf(NodeById(tree, reorderParent).children)

\* ========================================================================
\* Termination of acquireLock (checked under SpecLockFair)
\* ========================================================================
\* positions inside acquireLock
AcqPcs == {"read", "decide", "verify", "poll"}
InAcquire(c) == pc[c] \in AcqPcs

\* a backoff timer that fires late, at the deadline of the call's loop
BackoffLate(c) ==
  /\ pc[c] = "poll"
  /\ now < startTime[c] + timeoutMs
  /\ now' = startTime[c] + timeoutMs
  /\ UNCHANGED <<slot, pc, op, calls, lockId, startTime, currentLock, wakeAt,
                 polls, buf, fnOutcome, outcome, hist, forced, released,
                 localTree, remoteData>>
  /\ UNCHANGED <<writerVars, diffVars, pullResult, browser, options, batchVars>>

\* the steps of acquireLock in context c: continuations of awaited storage
\* calls and timer callbacks, which the event loop runs in the end
AcqStep(c) ==
  \/ AcqRead(c)
  \/ AcqPoll(c)
  \/ AcqTimeout(c)
  \/ AcqDecide(c)
  \/ AcqVerify(c)
  \/ BackoffLate(c)

\* the contexts push; a pull goes through acquireLock in the same way
NextLockFair ==
  \/ \E c \in Ctx : SyncStart(c, "push")
  \/ \E c \in Ctx : AcqStep(c)
  \/ \E c \in Ctx : PushReadLocal(c)
  \/ \E c \in Ctx : PushWrite(c)
  \/ \E c \in Ctx : ReleaseRead(c)
  \/ \E c \in Ctx : ReleaseRemove(c)
  \/ \E c \in Ctx : SyncReturn(c)
  \/ ForceRelease
  \/ \E d \in TickSteps : Tick(d)

SpecLockFair ==
  /\ InitLock /\ [][NextLockFair]_vars
  /\ \A c \in Ctx : WF_vars(AcqStep(c))

\* acquireLock of context c returns null in this step
ReturnsNull(c) == InAcquire(c) /\ pc'[c] = "done" /\ outcome'[c] = LockError

\* context c writes its record to the slot in this step
WritesSlot(c) == slot' # slot /\ slot'.holder = lockId[c]

\* C31: acquireLock always terminates; it returns null only once the
\* elapsed time has reached timeoutMs, and it writes to the slot only after
\* reading it empty or holding a stale record, so a call that finds the
\* non-stale record of another holder at every read returns null without
\* having written.
C31_AcquireTerminates ==
  /\ \A c \in Ctx : InAcquire(c) ~> ~InAcquire(c)
  /\ [][\A c \in Ctx :
          /\ ReturnsNull(c) => now' - startTime[c] >= timeoutMs
          /\ WritesSlot(c) =>
               (currentLock[c] = NoLock \/ AgeExceeds(currentLock[c], now))
          /\ (ReturnsNull(c) /\ ~hist[c].wrote) => slot' = slot]_vars

\* a call has returned null without ever writing, the slot still holding
\* the record of the other context
C31_Witness ==
  \E c \in Ctx :
    /\ pc[c] = "done" /\ outcome[c] = LockError /\ ~hist[c].wrote
    /\ slot # NoLock /\ slot.holder # lockId[c] /\ ~isLockExpired(slot)

(***************************************************************************)
(* The staleness threshold at its boundary (checked under SpecLock)        *)
(***************************************************************************)
Age(lock) == now - lock.acquiredAt

\* C32: a lock record is held only while its age is strictly below
\* LOCK_TIMEOUT_MS; at an age of exactly LOCK_TIMEOUT_MS isLocked returns
\* false (and acquireLock may then overwrite the record).
C32_HeldOnlyBelowThreshold ==
  (slot # NoLock /\ Age(slot) >= LOCK_TIMEOUT_MS) => ~isLocked

(***************************************************************************)
(* writeBookmarksFull (lib/bookmark/writer.ts): clear every container, then *)
(* create the remote folders' children again (SpecFull)                    *)
(***************************************************************************)
\* browser.bookmarks.removeTree(id): the node with all below it
bookmarksRemoveTree(t, id) == RemoveNode(t, id)

\* the remote payload comes from a browser whose containers carry the ids
\* of this browser's containers (TRUE) or other ids (FALSE)
WithTopIds(bms, sameIds) ==
  [bms EXCEPT ![1].children =
     [i \in 1..Len(@) |-> [@[i] EXCEPT !.id = IF sameIds THEN i ELSE 0]]]

\* clearAllBookmarks: the children of every container, in loop order
clearQueue(t) ==
  Flat([i \in 1..Len(t[1].children) |->
          [j \in 1..Len(t[1].children[i].children) |->
             t[1].children[i].children[j].id]])

\* root.children.find(f => f.title === remoteFolder.title ||
\*                         f.id === remoteFolder.id)
HasLocalFolder(containers, remoteFolder) ==
  \E i \in 1..Len(containers) :
     containers[i].title = remoteFolder.title \/ containers[i].id = remoteFolder.id
findLocalFolder(containers, remoteFolder) ==
  containers[CHOOSE i \in 1..Len(containers) :
     /\ containers[i].title = remoteFolder.title
        \/ containers[i].id = remoteFolder.id
     /\ \A j \in 1..(i - 1) :
          ~(containers[j].title = remoteFolder.title
            \/ containers[j].id = remoteFolder.id)]

\* the calls createBookmarkNode(child, localFolder.id) of the two loops of
\* writeBookmarksFull, in order; a remote folder without a local folder is
\* passed over
createQueue(containers, remoteFolders) ==
  Flat([i \in 1..Len(remoteFolders) |->
    LET remoteFolder == remoteFolders[i] IN
    IF ~HasLocalFolder(containers, remoteFolder) \/ ~remoteFolder.folder
    THEN <<>>
    ELSE [j \in 1..Len(remoteFolder.children) |->
            [node |-> remoteFolder.children[j],
             parentId |-> findLocalFolder(containers, remoteFolder).id]]])

\* createBookmarkNode(node, parentId) over the store st = [tree, nextId]
RECURSIVE createBookmarkNode(_, _, _)
RECURSIVE createChildren(_, _, _)
createBookmarkNode(st, node, parentId) ==
  IF node.url # ""
  THEN [tree |-> bookmarksCreate(st.tree, st.nextId, parentId, node.title,
                                 node.url, -1),
        nextId |-> st.nextId + 1]
  ELSE IF node.folder
  THEN createChildren([tree |-> bookmarksCreate(st.tree, st.nextId, parentId,
                                                node.title, "", -1),
                       nextId |-> st.nextId + 1],
                      node.children, st.nextId)
  ELSE st
createChildren(st, nodes, parentId) ==
  IF nodes = <<>> THEN st
  ELSE createChildren(createBookmarkNode(st, Head(nodes), parentId),
                      Tail(nodes), parentId)

InitFull ==
  /\ LockAtRest /\ remoteData = "none" /\ BatchAtRest
  /\ DiffAtRest /\ pullResult = NoPull /\ browser = "chromium"
  /\ WriterAtRest
  /\ tree \in LiveTrees
  /\ bookmarks \in {WithTopIds(b, sameIds) :
                      b \in DesiredTrees, sameIds \in BOOLEAN}
  /\ faults \in 0..MaxFaults

\* entry: getTree, the root must have children; clearAllBookmarks reads
\* the tree again
FullStart ==
  /\ wpc = "idle"
  /\ runs' = runs + 1
  /\ treeBefore' = tree
  /\ IF tree[1].children = <<>>
     THEN wpc' = "thrown" /\ UNCHANGED toDelete
     ELSE wpc' = "clear" /\ toDelete' = clearQueue(tree)
  /\ UNCHANGED <<tree, nextId, bookmarks, byPath, rootFolders, toUpdate,
                 toMove, toReorder, toCreate, items, currentChildren,
                 reorderParent, changes, errors, log, firstResult, faults>>
  /\ UNCHANGED <<lockVars, diffVars, pullResult, browser, options, batchVars>>

\* clearAllBookmarks: await browser.bookmarks.removeTree(child.id)
FullClear ==
  /\ wpc = "clear" /\ toDelete # <<>>
  /\ \E thrown \in BOOLEAN :
       /\ thrown => faults > 0
       /\ IF thrown
          THEN /\ wpc' = "thrown" /\ faults' = faults - 1
               /\ log' = Append(log, Prim("removeTree", Head(toDelete), "", FALSE))
               /\ UNCHANGED tree
          ELSE /\ tree' = bookmarksRemoveTree(tree, Head(toDelete))
               /\ log' = Append(log, Prim("removeTree", Head(toDelete), "", TRUE))
               /\ UNCHANGED <<wpc, faults>>
  /\ toDelete' = Tail(toDelete)
  /\ UNCHANGED <<nextId, bookmarks, runs, byPath, rootFolders, toUpdate,
                 toMove, toReorder, toCreate, items, currentChildren,
                 reorderParent, changes, errors, treeBefore, firstResult>>
  /\ UNCHANGED <<lockVars, diffVars, pullResult, browser, options, batchVars>>

\* let count = 0; remoteRoot = bookmarks[0]; without children return 0;
\* else the two loops begin
FullMatch ==
  /\ wpc = "clear" /\ toDelete = <<>>
  /\ changes' = 0
  /\ IF bookmarks = <<>> \/ ~bookmarks[1].folder
     THEN wpc' = "fullDone" /\ UNCHANGED toCreate
     ELSE /\ wpc' = "create"
          /\ toCreate' = createQueue(treeBefore[1].children,
                                     bookmarks[1].children)
  /\ UNCHANGED <<tree, nextId, bookmarks, runs, byPath, rootFolders,
                 toDelete, toUpdate, toMove, toReorder, items,
                 currentChildren, reorderParent, errors, log, treeBefore,
                 firstResult, faults>>
  /\ UNCHANGED <<lockVars, diffVars, pullResult, browser, options, batchVars>>

\* await createBookmarkNode(child, localFolder.id); count++
FullCreate ==
  /\ wpc = "create" /\ toCreate # <<>>
  /\ LET it == Head(toCreate)
         st == createBookmarkNode([tree |-> tree, nextId |-> nextId],
                                  it.node, it.parentId)
     IN \E thrown \in BOOLEAN :
          /\ thrown => faults > 0
          /\ IF thrown
             THEN /\ wpc' = "thrown" /\ faults' = faults - 1
                  /\ log' = Append(log, Prim("create", 0, it.node.url, FALSE))
                  /\ UNCHANGED <<tree, nextId, changes>>
             ELSE /\ tree' = st.tree /\ nextId' = st.nextId
                  /\ changes' = changes + 1
                  /\ log' = Append(log, Prim("create", nextId, it.node.url, TRUE))
                  /\ UNCHANGED <<wpc, faults>>
  /\ toCreate' = Tail(toCreate)
  /\ UNCHANGED <<bookmarks, runs, byPath, rootFolders, toDelete, toUpdate,
                 toMove, toReorder, items, currentChildren, reorderParent,
                 errors, treeBefore, firstResult>>
  /\ UNCHANGED <<lockVars, diffVars, pullResult, browser, options, batchVars>>

\* return count
FullReturn ==
  /\ wpc = "create" /\ toCreate = <<>>
  /\ wpc' = "fullDone"
  /\ UNCHANGED <<tree, nextId, bookmarks, runs, byPath, rootFolders,
                 toDelete, toUpdate, toMove, toReorder, toCreate, items,
                 currentChildren, reorderParent, changes, errors, log,
                 treeBefore, firstResult, faults>>
  /\ UNCHANGED <<lockVars, diffVars, pullResult, browser, options, batchVars>>

NextFull ==
  \/ FullStart
  \/ FullClear
  \/ FullMatch
  \/ FullCreate
  \/ FullReturn

SpecFull == InitFull /\ [][NextFull]_vars

\* writeBookmarksFull has returned its count
FullCompleted == wpc = "fullDone"

\* the containers of the live tree when the call began
ContainersBefore == treeBefore[1].children
Container(id) == NodeById(tree, id)

PreviousChildrenRemoved ==
  \A i \in 1..Len(clearQueue(treeBefore)) :
     ~NodeExists(tree, clearQueue(treeBefore)[i])

MatchedFoldersRecreated ==
  \A i \in 1..Len(bookmarks[1].children) :
     LET remoteFolder == bookmarks[1].children[i] IN
     HasLocalFolder(ContainersBefore, remoteFolder) =>
       Shape(Container(findLocalFolder(ContainersBefore, remoteFolder).id).children)
         = Shape(remoteFolder.children)

\* C33: after writeBookmarksFull(desired) completes without throwing, the
\* previous children of every live container are gone, each top-level
\* folder of desired is recreated (titles, urls, nesting, order) in its
\* matching container, and so the live tree holds exactly the urls of
\* desired.
C33_FullRecreatesDesired ==
  FullCompleted =>
    /\ PreviousChildrenRemoved
    /\ MatchedFoldersRecreated
    /\ UrlsOf(tree) = UrlsOf(bookmarks)

(***************************************************************************)
(* Batch upload from the options page (entrypoints/options/hooks/          *)
(* useSyncOperations.ts) with calculateSyncDiff (lib/sync/operations.ts),   *)
(* SpecBatch                                                               *)
(***************************************************************************)
\* upload-enabled backups of one batch
MaxBackups == 2

\* getBookmarksForBackup(backup)
LocalBookmarks == <<Folder("", <<Folder("Bar", <<Leaf("u1", "A")>>)>>)>>
\* what a gist can hold
RemoteBookmarks == {LocalBookmarks, <<Folder("", <<Folder("Bar", <<>>)>>)>>}

\* a BackupConfig together with what its gist answers: read is "throws"
\* (storage.read rejects), "null" (no data) or "data"
BackupKinds ==
  {[name |-> 0, gistId |-> FALSE, read |-> "null", bookmarks |-> <<>>]}
  \cup {[name |-> 0, gistId |-> TRUE, read |-> r, bookmarks |-> <<>>] :
          r \in {"throws", "null"}}
  \cup {[name |-> 0, gistId |-> TRUE, read |-> "data", bookmarks |-> b] :
          b \in RemoteBookmarks}
Named(q) == [i \in 1..Len(q) |-> [q[i] EXCEPT !.name = i]]
BackupQueues == {Named(q) : q \in UNION {[1..k -> BackupKinds] : k \in 0..MaxBackups}}

\* calculateSyncDiff(backup, 'push') over the local bookmarks: null without
\* a gistId, without remote data and when the read throws
calculateSyncDiff(backup, local) ==
  IF ~backup.gistId \/ backup.read # "data"
  THEN [null |-> TRUE, diff |-> NoDiff]
  ELSE [null |-> FALSE,
        diff |-> calculateDiffWith(backup.bookmarks, local, NoOptions)]

\* executeSinglePush's / executeBatchPush's bookkeeping of one result
Pushed(results, backup, ok) ==
  IF ok THEN [results EXCEPT !.items = Append(@, backup.name)]
  ELSE [results EXCEPT !.fail = @ + 1]

RECURSIVE PushAll(_, _, _)
PushAll(queue, oks, results) ==
  IF queue = <<>> THEN results
  ELSE PushAll(Tail(queue), Tail(oks), Pushed(results, Head(queue), Head(oks)))

InitBatch ==
  /\ LockAtRest /\ remoteData = "none"
  /\ WriterAtRest /\ tree = <<>> /\ bookmarks = <<>> /\ faults = 0
  /\ pullResult = NoPull /\ browser = "chromium"
  /\ source = <<>> /\ target = LocalBookmarks /\ dpc = "idle"
  /\ diff = NoDiff /\ diffBack = NoDiff
  /\ payload = <<>> /\ pushResult = "none" /\ options = NoOptions
  /\ backups \in BackupQueues
  /\ diffState = INITIAL_DIFF_STATE /\ bpc = "idle"
  /\ call = [queue |-> <<>>, results |-> NoResults]
  /\ handled = <<>> /\ pushCalls = <<>> /\ finalResults = NoResults

\* handleBatchPush: refuses without backups or under a held lock; with
\* diffPreviewEnabled starts processNextPushBackup over all the backups,
\* else executeBatchPush pushes each of them
HandleBatchPush ==
  /\ bpc = "idle"
  /\ IF backups = <<>> \/ isLocked
     THEN /\ bpc' = "refused"
          /\ UNCHANGED <<diffState, call, pushCalls, finalResults>>
     ELSE \E diffPreviewEnabled \in BOOLEAN :
            IF diffPreviewEnabled
            THEN /\ diffState' = [diffState EXCEPT
                                    !.pendingPushBackups = backups,
                                    !.pushResults = NoResults]
                 /\ call' = [queue |-> backups, results |-> NoResults]
                 /\ bpc' = "next"
                 /\ UNCHANGED <<pushCalls, finalResults>>
            ELSE \E oks \in [1..Len(backups) -> BOOLEAN] :
                   /\ pushCalls' = [i \in 1..Len(backups) |-> backups[i].name]
                   /\ finalResults' = PushAll(backups, oks, NoResults)
                   /\ bpc' = "finished"
                   /\ UNCHANGED <<diffState, call>>
  /\ UNCHANGED <<backups, handled>>
  /\ UNCHANGED <<lockVars, writerVars, diffVars, pullResult, browser, options>>

\* processNextPushBackup(queue, results): an empty queue ends the batch
\* (finishBatchPush); else the head becomes current, its diff is computed
\* and shown if it has changes; otherwise the call goes on with the rest
ProcessNextPushBackup ==
  /\ bpc = "next"
  /\ IF call.queue = <<>>
     THEN /\ diffState' = [diffState EXCEPT
                             !.currentPushBackup = NoBackup,
                             !.pendingPushBackups = <<>>,
                             !.pushResults = NoResults]
          /\ finalResults' = call.results
          /\ bpc' = "finished"
          /\ UNCHANGED <<call, handled>>
     ELSE LET current == Head(call.queue)
              rest == Tail(call.queue)
              d == calculateSyncDiff(current, target)
          IN /\ handled' = Append(handled, current.name)
             /\ IF ~d.null /\ d.diff.hasChanges
                THEN /\ diffState' = [diffState EXCEPT
                                        !.pendingPushBackups = rest,
                                        !.currentPushBackup = current,
                                        !.result = d.diff,
                                        !.action = "push",
                                        !.pushResults = call.results,
                                        !.showModal = TRUE]
                     /\ bpc' = "modal"
                     /\ UNCHANGED call
                ELSE /\ diffState' = [diffState EXCEPT
                                        !.pendingPushBackups = rest,
                                        !.currentPushBackup = current]
                     /\ call' = [queue |-> rest, results |-> call.results]
                     /\ UNCHANGED bpc
             /\ UNCHANGED finalResults
  /\ UNCHANGED <<backups, pushCalls>>
  /\ UNCHANGED <<lockVars, writerVars, diffVars, pullResult, browser, options>>

\* handleDiffConfirm (action 'push'): executeSinglePush of the current
\* backup, then processNextPushBackup(pendingPushBackups, newResults)
HandleDiffConfirm ==
  /\ bpc = "modal" /\ diffState.showModal
  /\ diffState.action = "push" /\ diffState.currentPushBackup # NoBackup
  /\ \E ok \in BOOLEAN :
       call' = [queue |-> diffState.pendingPushBackups,
                results |-> Pushed(diffState.pushResults,
                                   diffState.currentPushBackup, ok)]
  /\ pushCalls' = Append(pushCalls, diffState.currentPushBackup.name)
  /\ diffState' = [diffState EXCEPT !.showModal = FALSE, !.result = NoDiff,
                                    !.action = "null"]
  /\ bpc' = "next"
  /\ UNCHANGED <<backups, handled, finalResults>>
  /\ UNCHANGED <<lockVars, writerVars, diffVars, pullResult, browser, options>>

\* handleDiffCancel (action 'push'): the current backup is passed over
HandleDiffCancel ==
  /\ bpc = "modal" /\ diffState.showModal
  /\ diffState.action = "push" /\ diffState.currentPushBackup # NoBackup
  /\ call' = [queue |-> diffState.pendingPushBackups,
              results |-> diffState.pushResults]
  /\ diffState' = [diffState EXCEPT !.showModal = FALSE, !.result = NoDiff,
                                    !.action = "null"]
  /\ bpc' = "next"
  /\ UNCHANGED <<backups, handled, pushCalls, finalResults>>
  /\ UNCHANGED <<lockVars, writerVars, diffVars, pullResult, browser, options>>

\* handleCancelAllPush: the batch is given up
HandleCancelAllPush ==
  /\ bpc = "modal" /\ diffState.showModal
  /\ diffState' = INITIAL_DIFF_STATE
  /\ bpc' = "cancelled"
  /\ UNCHANGED <<backups, call, handled, pushCalls, finalResults>>
  /\ UNCHANGED <<lockVars, writerVars, diffVars, pullResult, browser, options>>

NextBatch ==
  \/ HandleBatchPush
  \/ ProcessNextPushBackup
  \/ HandleDiffConfirm
  \/ HandleDiffCancel
  \/ HandleCancelAllPush

SpecBatch == InitBatch /\ [][NextBatch]_vars

\* the batch went through diff previews to its end
PreviewBatchFinished == bpc = "finished" /\ handled # <<>>

WasPushed(b) == \E i \in 1..Len(pushCalls) : pushCalls[i] = b.name
DiffUnavailable(b) == calculateSyncDiff(b, target).null
DiffWithoutChanges(b) ==
  ~calculateSyncDiff(b, target).null
  /\ ~calculateSyncDiff(b, target).diff.hasChanges

\* C34: in a batch push with diff preview, every upload-enabled backup is
\* handled exactly once and in order, a backup whose diff cannot be
\* obtained (no gist id, no remote data, failed read) is uploaded directly,
\* and a backup stays un-pushed only when its diff shows no changes or the
\* user cancels it.
C34_BatchPushHandlesAll ==
  PreviewBatchFinished =>
    /\ handled = [i \in 1..Len(backups) |-> backups[i].name]
    /\ \A i \in 1..Len(backups) :
         DiffUnavailable(backups[i]) => WasPushed(backups[i])

(***************************************************************************)
(* A call of acquireLock that gave up leaves nothing behind (SpecLock)     *)
(***************************************************************************)
\* acquireLock has returned null to context c, whose token is lockId[c]
\* until its next call draws a new one
ReturnedNull(c) == pc[c] = "done" /\ outcome[c] = LockError

\* the token of call number n of context c enters the slot
TokenEnters(c, n) ==
  /\ slot.holder # generateLockId(c, n)
  /\ slot'.holder = generateLockId(c, n)

\* C35: whenever acquireLock returns null, the slot does not hold a record
\* whose holder is that call's token, at the moment of return and at any
\* later time: the slot holds no token of a call that has returned null,
\* and a token enters the slot only in its own call's write, before that
\* call returns.
C35_NullLeavesNoRecord ==
  /\ [](\A c \in Ctx : ReturnedNull(c) => slot.holder # lockId[c])
  /\ [][\A c \in Ctx : \A n \in 1..MaxCalls :
          TokenEnters(c, n) =>
            pc[c] = "decide" /\ lockId[c] = generateLockId(c, n)]_vars

\* a call returned null after having written its record, which another
\* context overwrote
C35_Witness ==
  \E c \in Ctx :
    /\ pc[c] = "done" /\ outcome[c] = LockError /\ hist[c].wrote
    /\ slot # NoLock /\ slot.holder # lockId[c]

(***************************************************************************)
(* Creates and moves whose parent path resolves to no folder               *)
(* (writeBookmarksIncremental over desired trees that also hold a bookmark  *)
(* at root level, SpecUnresolved)                                          *)
(***************************************************************************)
\* remote trees with a bookmark directly below the unnamed root, before
\* the top-level folders
RootLevelDesiredTrees ==
  {<<Folder("", <<Leaf("u2", "A"), Folder(t, k1), Folder("Other", k2)>>)>> :
     t \in TopTitles, k1 \in KidSeqs(MaxDesiredKids), k2 \in OtherKids}

InitUnresolved ==
  /\ LockAtRest /\ remoteData = "none" /\ BatchAtRest
  /\ DiffAtRest /\ pullResult = NoPull /\ browser \in Browsers
  /\ WriterAtRest
  /\ tree \in LiveTrees
  /\ bookmarks \in RootLevelDesiredTrees
  /\ faults = MaxFaults

SpecUnresolved == InitUnresolved /\ [][NextWriter]_vars

\* the parent path names no folder that could be found or created: it is
\* the root level, or its first segment is no container of the live tree
Unresolvable(parentPath) ==
  \/ parentPath = <<>>
  \/ \A i \in 1..Len(tree[1].children) :
        tree[1].children[i].title # parentPath[1]

\* the move loop / the create loop handles an item with such a path
MoveOfUnresolvable ==
  /\ wpc = "run" /\ toDelete = <<>> /\ toUpdate = <<>> /\ toMove # <<>>
  /\ toMove' = Tail(toMove)
  /\ Unresolvable(Head(toMove).parentPath)
CreateOfUnresolvable ==
  /\ wpc = "run" /\ toDelete = <<>> /\ toUpdate = <<>> /\ toMove = <<>>
  /\ toReorder = <<>> /\ items = <<>> /\ toCreate # <<>>
  /\ toCreate' # toCreate
  /\ Unresolvable(Head(SortByKey(toCreate, LAMBDA x : x.index)).parentPath)

\* C36: when the parent path of a create or of a cross-folder move cannot
\* be resolved to a folder id (first segment matches no container of the
\* live tree, or the bookmark is at root level), no create or move
\* primitive is issued for the item, changes is not incremented and no
\* error is recorded.
C36_UnresolvedSkippedSilently ==
  [][(MoveOfUnresolvable \/ CreateOfUnresolvable) =>
       /\ log' = log /\ tree' = tree
       /\ changes' = changes /\ errors' = errors]_vars

\* a pass has returned that passed over a create at root level and one
\* below a folder that is no container
C36_Witness ==
  /\ wpc = "done" /\ errors = <<>>
  /\ \E l \in Range(processBookmarkTree(bookmarks)) :
       l.parentPath = <<>> /\ l.node.url \notin UrlsOf(tree)
  /\ \E l \in Range(processBookmarkTree(bookmarks)) :
       l.parentPath # <<>> /\ Unresolvable(l.parentPath)
       /\ l.node.url \notin UrlsOf(tree)

(***************************************************************************)
(* What push and pull leave alone (SpecLock)                               *)
(***************************************************************************)
\* context c completes the step it is at
Leaves(c, at) == pc[c] = at /\ pc'[c] # at

\* C37: SyncEngine.push issues no live-tree mutation primitive and calls
\* the remote write at most once; SyncEngine.pull never calls the remote
\* write: the live tree is changed by no step of a push, the remote
\* payload by no step of a pull.
C37_PushPullFrame ==
  /\ [](\A c \in Ctx :
          /\ op[c] = "push" => ~hist[c].prims
          /\ op[c] = "pull" => ~hist[c].rWrite
          /\ pc[c] = "push_write" => ~hist[c].rWrite)
  /\ [][/\ localTree' # localTree =>
             \E c \in Ctx : op[c] = "pull" /\ Leaves(c, "pull_write")
        /\ remoteData' # remoteData =>
             \E c \in Ctx : op[c] = "push" /\ Leaves(c, "push_write")]_vars

\* a push that wrote the payload and a pull that wrote the live tree have
\* both returned
C37_Witness ==
  \E c, e \in Ctx :
    /\ pc[c] = "done" /\ op[c] = "push" /\ hist[c].rWrite
    /\ outcome[c] = Value("pushed")
    /\ pc[e] = "done" /\ op[e] = "pull" /\ hist[e].prims
    /\ outcome[e] = Value("pulled")

(***************************************************************************)
(* The three lists of a diff share no url (SpecDiff)                       *)
(***************************************************************************)
NoUrlTwice(list) ==
  \A i, j \in 1..Len(list) : list[i].url = list[j].url => i = j

\* C38: for every pair of input trees, trees with repeated urls included,
\* the url sets of added, removed and modified returned by calculateDiff
\* are pairwise disjoint and no url occurs twice within one list.
C38_DiffListsDisjoint ==
  dpc \in {"diffed", "both"} =>
    /\ DiffUrls(diff.added) \cap DiffUrls(diff.removed) = {}
    /\ DiffUrls(diff.added) \cap DiffUrls(diff.modified) = {}
    /\ DiffUrls(diff.removed) \cap DiffUrls(diff.modified) = {}
    /\ NoUrlTwice(diff.added) /\ NoUrlTwice(diff.removed)
    /\ NoUrlTwice(diff.modified)

\* a diff from a source that repeats a url, with added and modified
\* entries
C38_Witness ==
  /\ dpc \in {"diffed", "both"}
  /\ HasRepeatedUrl(source)
  /\ diff.added # <<>> /\ diff.modified # <<>>

(***************************************************************************)
(* A waiting acquireLock after the slot was emptied (SpecLockFair)         *)
(***************************************************************************)
\* acquireLock has returned its token to context c
Acquired(c) == hist[c].got = lockId[c] /\ lockId[c] # NoToken

\* no other context is at work or will be, and nobody forces a release
NobodyElse(c) ==
  /\ \A e \in Ctx \ {c} : pc[e] \in {"idle", "done"}
  /\ TotalCalls = MaxCalls
  /\ forced = MaxForce

\* context c sleeps between two polls, before its timeout, and the slot
\* has been emptied
WaitsAtEmptySlot(c) ==
  /\ pc[c] = "poll" /\ polls[c] < MaxPolls
  /\ slot = NoLock
  /\ loopCondition(c, now)

\* context c, having polled, has read the slot empty inside the loop
ReadEmptySlot(c) == pc[c] = "decide" /\ currentLock[c] = NoLock

\* C39, as stated: if the slot is emptied (releaseLock by the holder, or
\* forceReleaseLock) while another context is polling in acquireLock with
\* time left before its timeout, and nobody else competes, the polling
\* context eventually returns a non-null token.
C39_Original ==
  \A c \in Ctx : (WaitsAtEmptySlot(c) /\ NobodyElse(c)) ~> Acquired(c)

\* C39, amended: if the polling context reads the emptied slot in a poll
\* that begins before its timeout, and nobody else writes or empties the
\* slot, it eventually returns a non-null token.
C39_PollBeforeTimeoutAcquires ==
  \A c \in Ctx : (ReadEmptySlot(c) /\ NobodyElse(c)) ~> Acquired(c)

\* a context that found the slot held has polled again and read it empty
C39_Witness ==
  \E c \in Ctx :
    /\ ReadEmptySlot(c) /\ NobodyElse(c)
    /\ polls[c] > 0


====
